---- MODULE Spec2Model ----
(***************************************************************************)
(* L2 order-book replay engine (crate l2_replay).                          *)
(*                                                                         *)
(* The model follows the split sources: types.rs (OrderBook, DenseBook),   *)
(* replay.rs (SnapshotReset, CadenceState, replay), io.rs (after_pos_expr, *)
(* latest_checkpoint, the scans), ops.rs (snapshot_at_delta,               *)
(* replay_between_delta, build_state_checkpoints_delta) and utils.rs.      *)
(*                                                                         *)
(* Option<T> is a sequence of length 0 (None) or 1 (Some).  Every call of  *)
(* the public API owns its locals; they are held in the record st.         *)
(***************************************************************************)
EXTENDS Integers, Sequences, FiniteSets, TLC

VARIABLES
    config,     \* the arguments of the running call (ReplayConfig, window, cadence)
    st,         \* the locals of the running call (book, keys, cadence, outputs)
    consumed,   \* the updates the call has taken from its input so far, in order
    table       \* the checkpoint table (a sequence of CheckpointRow)

vars == <<config, st, consumed, table>>

(***************************************************************************)
(* Bounds of the model.                                                    *)
(***************************************************************************)
MaxLen == 3          \* updates a call takes from its input
DayLen == 5          \* microseconds of a civil day, scaled
SecLen == 2          \* microseconds of a second, scaled
CadenceLen == 4      \* updates of a stream that exercises the cadence
MaxTs == 3           \* largest ts_local_us of such a stream
MaxEvery == 3        \* largest every_us and every_updates

\* sample values of the fields of an update
Tss == {1, 2}
Sides == {0, 1}
FileIds == {10, 11}

(***************************************************************************)
(* Option, tuples, maps.                                                   *)
(***************************************************************************)
None == << >>
Some(x) == <<x>>
IsSome(o) == Len(o) = 1
IsNone(o) == Len(o) = 0
Unwrap(o) == o[1]

Min2(a, b) == IF a <= b THEN a ELSE b
Max2(a, b) == IF a >= b THEN a ELSE b

\* Rust's ordering of tuples: lexicographic, component by component.
RECURSIVE TupleLessFrom(_, _, _)
TupleLessFrom(a, b, i) ==
    IF i > Len(a) THEN FALSE
    ELSE IF a[i] < b[i] THEN TRUE
    ELSE IF a[i] > b[i] THEN FALSE
    ELSE TupleLessFrom(a, b, i + 1)

TupleLess(a, b) == TupleLessFrom(a, b, 1)

EmptyMap == [x \in {} |-> 0]
MapRemove(m, k) == [x \in (DOMAIN m) \ {k} |-> m[x]]
MapInsert(m, k, v) == [x \in (DOMAIN m) \cup {k} |-> IF x = k THEN v ELSE m[x]]
MapGet(m, k) == IF k \in DOMAIN m THEN Some(m[k]) ELSE None

RECURSIVE SortAsc(_)
SortAsc(S) ==
    IF S = {} THEN << >>
    ELSE LET m == CHOOSE x \in S : \A y \in S : x <= y
         IN <<m>> \o SortAsc(S \ {m})

RECURSIVE SortDesc(_)
SortDesc(S) ==
    IF S = {} THEN << >>
    ELSE LET m == CHOOSE x \in S : \A y \in S : x >= y
         IN <<m>> \o SortDesc(S \ {m})

(***************************************************************************)
(* types.rs: L2Update, StreamPos.                                          *)
(***************************************************************************)
L2Update(ts, seq, line, snap, side, price, size, fid) ==
    [ts_local_us |-> ts, ingest_seq |-> seq, file_line_number |-> line,
     is_snapshot |-> snap, side |-> side, price_int |-> price,
     size_int |-> size, file_id |-> fid]

StreamPos(u) ==
    [ts_local_us |-> u.ts_local_us, ingest_seq |-> u.ingest_seq,
     file_line_number |-> u.file_line_number, file_id |-> u.file_id]

\* the four-key tuple (ts_local_us, ingest_seq, file_id, file_line_number)
current_key(u) == <<u.ts_local_us, u.ingest_seq, u.file_id, u.file_line_number>>

(***************************************************************************)
(* types.rs: OrderBook, sparse (BTree) storage.                            *)
(***************************************************************************)
OrderBookDefault == [storage |-> "BTree", bids |-> EmptyMap, asks |-> EmptyMap]

BTreeReset(book) == [book EXCEPT !.bids = EmptyMap, !.asks = EmptyMap]

\* the arm `_ =>` of the match on update.side: debug_assert!(false, ..) panics
\* in a build with debug assertions and is compiled out otherwise
debug_assert_invalid_side(debug_assertions, u) ==
    debug_assertions /\ u.side \notin {0, 1}

\* variant: every side but 0 is taken for the ask side
BTreeApplyUpdate_else_asks(book, u) ==
    LET f == IF u.side = 0 THEN "bids" ELSE "asks"
    IN IF u.size_int = 0
       THEN [book EXCEPT ![f] = MapRemove(book[f], u.price_int)]
       ELSE [book EXCEPT ![f] = MapInsert(book[f], u.price_int, u.size_int)]

BTreeApplyUpdate(book, u) ==
    IF u.side \notin {0, 1} THEN book
    ELSE LET f == IF u.side = 0 THEN "bids" ELSE "asks"
         IN IF u.size_int = 0
            THEN [book EXCEPT ![f] = MapRemove(book[f], u.price_int)]
            ELSE [book EXCEPT ![f] = MapInsert(book[f], u.price_int, u.size_int)]

\* BTreeMap::extend: the pairs are inserted in order, a later pair overwrites
RECURSIVE MapExtend(_, _)
MapExtend(m, levels) ==
    IF levels = << >> THEN m
    ELSE MapExtend(MapInsert(m, Head(levels)[1], Head(levels)[2]), Tail(levels))

\* variant: the maps are extended without being cleared
BTreeSeedFromLevels_keeps(book, bids, asks) ==
    [book EXCEPT !.bids = MapExtend(book.bids, bids), !.asks = MapExtend(book.asks, asks)]

BTreeSeedFromLevels(book, bids, asks) ==
    [book EXCEPT !.bids = MapExtend(EmptyMap, bids), !.asks = MapExtend(EmptyMap, asks)]

BTreeLevels(book) ==
    LET bp == SortDesc(DOMAIN book.bids)
        ap == SortAsc(DOMAIN book.asks)
    IN <<[i \in 1..Len(bp) |-> <<bp[i], book.bids[bp[i]]>>],
         [i \in 1..Len(ap) |-> <<ap[i], book.asks[ap[i]]>>]>>

(***************************************************************************)
(* types.rs: DenseBook.  The arrays are functions over 0..len-1.           *)
(***************************************************************************)
Ok(v) == [ok |-> TRUE, value |-> v]
Err(e) == [ok |-> FALSE, err |-> e]

DenseNew(min_price_int, max_price_int, tick_size_int) ==
    IF tick_size_int <= 0 THEN Err("tick_size_int must be > 0")
    ELSE IF max_price_int < min_price_int THEN Err("max_price_int must be >= min_price_int")
    ELSE LET range == max_price_int - min_price_int
         IN IF range % tick_size_int # 0 THEN Err("price range must align with tick_size_int")
            ELSE LET len == (range \div tick_size_int) + 1
                 IN Ok([min_price_int |-> min_price_int,
                        max_price_int |-> max_price_int,
                        tick_size_int |-> tick_size_int,
                        bids |-> [i \in 0..(len - 1) |-> 0],
                        asks |-> [i \in 0..(len - 1) |-> 0],
                        bids_len |-> 0, asks_len |-> 0,
                        bid_min_idx |-> None, bid_max_idx |-> None,
                        ask_min_idx |-> None, ask_max_idx |-> None,
                        warned_bid_oob |-> FALSE, warned_ask_oob |-> FALSE,
                        diagnostics |-> << >>])

\* variant: a reset forgets that a diagnostic was issued
DenseReset_clears_warned(d) ==
    [d EXCEPT !.bids = [i \in DOMAIN d.bids |-> 0],
              !.asks = [i \in DOMAIN d.asks |-> 0],
              !.bids_len = 0, !.asks_len = 0,
              !.bid_min_idx = None, !.bid_max_idx = None,
              !.ask_min_idx = None, !.ask_max_idx = None,
              !.warned_bid_oob = FALSE, !.warned_ask_oob = FALSE]

DenseReset(d) ==
    [d EXCEPT !.bids = [i \in DOMAIN d.bids |-> 0],
              !.asks = [i \in DOMAIN d.asks |-> 0],
              !.bids_len = 0, !.asks_len = 0,
              !.bid_min_idx = None, !.bid_max_idx = None,
              !.ask_min_idx = None, !.ask_max_idx = None]

price_to_index_static(price_int, min_price_int, max_price_int, tick_size_int) ==
    IF price_int < min_price_int \/ price_int > max_price_int THEN None
    ELSE LET offset == price_int - min_price_int
         IN IF offset % tick_size_int # 0 THEN None
            ELSE Some(offset \div tick_size_int)

price_to_index(d, price_int) ==
    price_to_index_static(price_int, d.min_price_int, d.max_price_int, d.tick_size_int)

\* warn_out_of_range on the flag of one side: the flag afterwards, and the
\* line written to stderr the first time
warn_out_of_range(d, flag, price_int) ==
    IF d[flag] THEN d
    ELSE [d EXCEPT ![flag] = TRUE, !.diagnostics = Append(@, <<flag, price_int>>)]

RECURSIVE ScanUp(_, _, _)
ScanUp(side, idx, len) ==
    IF idx >= len THEN None
    ELSE IF side[idx] # 0 THEN Some(idx)
    ELSE ScanUp(side, idx + 1, len)

RECURSIVE ScanDown(_, _)
ScanDown(side, idx) ==
    IF side[idx] # 0 THEN Some(idx)
    ELSE IF idx = 0 THEN None
    ELSE ScanDown(side, idx - 1)

find_next_nonzero(side, start, direction) ==
    IF direction >= 0 THEN ScanUp(side, start + 1, Cardinality(DOMAIN side))
    ELSE IF start > 0 THEN ScanDown(side, start - 1)
    ELSE None

DenseSideFields(side) ==
    IF side = 0
    THEN [arr |-> "bids", len |-> "bids_len", min |-> "bid_min_idx", max |-> "bid_max_idx",
          warned |-> "warned_bid_oob"]
    ELSE [arr |-> "asks", len |-> "asks_len", min |-> "ask_min_idx", max |-> "ask_max_idx",
          warned |-> "warned_ask_oob"]

\* variant: the counter goes down whether or not the level was present
DenseClear_always_counts(d, f, idx) ==
    LET prev == d[f.arr][idx]
        side == [d[f.arr] EXCEPT ![idx] = 0]
        d1 == [d EXCEPT ![f.arr] = side, ![f.len] = Max2(@ - 1, 0)]
        d2 == IF prev # 0 /\ IsSome(d1[f.min]) /\ Unwrap(d1[f.min]) = idx
              THEN [d1 EXCEPT ![f.min] = find_next_nonzero(side, idx, 1)]
              ELSE d1
    IN IF prev # 0 /\ IsSome(d2[f.max]) /\ Unwrap(d2[f.max]) = idx
       THEN [d2 EXCEPT ![f.max] = find_next_nonzero(side, idx, -1)]
       ELSE d2

DenseClear(d, f, idx) ==
    LET prev == d[f.arr][idx]
        side == [d[f.arr] EXCEPT ![idx] = 0]
        d1 == [d EXCEPT ![f.arr] = side,
                        ![f.len] = IF prev # 0 THEN Max2(@ - 1, 0) ELSE @]
        d2 == IF prev # 0 /\ IsSome(d1[f.min]) /\ Unwrap(d1[f.min]) = idx
              THEN [d1 EXCEPT ![f.min] = find_next_nonzero(side, idx, 1)]
              ELSE d1
    IN IF prev # 0 /\ IsSome(d2[f.max]) /\ Unwrap(d2[f.max]) = idx
       THEN [d2 EXCEPT ![f.max] = find_next_nonzero(side, idx, -1)]
       ELSE d2

\* variant: a set also clears the slot above it
DenseSet_clears_next(d, f, idx, size_int) ==
    LET prev == d[f.arr][idx]
        d1 == IF prev = 0
              THEN [d EXCEPT
                      ![f.len] = @ + 1,
                      ![f.min] = IF IsSome(@) THEN (IF idx < Unwrap(@) THEN Some(idx) ELSE @)
                                 ELSE Some(idx),
                      ![f.max] = IF IsSome(@) THEN (IF idx > Unwrap(@) THEN Some(idx) ELSE @)
                                 ELSE Some(idx)]
              ELSE d
    IN [d1 EXCEPT ![f.arr] = [i \in DOMAIN @ |->
                                 IF i = idx THEN size_int
                                 ELSE IF i = idx + 1 THEN 0 ELSE @[i]]]

DenseSet(d, f, idx, size_int) ==
    LET prev == d[f.arr][idx]
        d1 == IF prev = 0
              THEN [d EXCEPT
                      ![f.len] = @ + 1,
                      ![f.min] = IF IsSome(@) THEN (IF idx < Unwrap(@) THEN Some(idx) ELSE @)
                                 ELSE Some(idx),
                      ![f.max] = IF IsSome(@) THEN (IF idx > Unwrap(@) THEN Some(idx) ELSE @)
                                 ELSE Some(idx)]
              ELSE d
    IN [d1 EXCEPT ![f.arr] = [@ EXCEPT ![idx] = size_int]]

DenseApplyUpdate(d, u) ==
    LET idx == price_to_index_static(u.price_int, d.min_price_int, d.max_price_int,
                                     d.tick_size_int)
    IN IF IsNone(idx)
       THEN IF u.side \notin {0, 1} THEN d
            ELSE warn_out_of_range(d, DenseSideFields(u.side).warned, u.price_int)
       ELSE IF u.side \notin {0, 1} THEN d
       ELSE IF u.size_int = 0
            THEN DenseClear(d, DenseSideFields(u.side), Unwrap(idx))
            ELSE DenseSet(d, DenseSideFields(u.side), Unwrap(idx), u.size_int)

\* one loop of seed_from_levels over the levels of one side
RECURSIVE DenseSeedSide(_, _, _)
DenseSeedSide(d, f, levels) ==
    IF levels = << >> THEN d
    ELSE LET price == Head(levels)[1]
             size == Head(levels)[2]
             idx == price_to_index(d, price)
         IN IF IsNone(idx)
            THEN DenseSeedSide(warn_out_of_range(d, f.warned, price), f, Tail(levels))
            ELSE LET i == Unwrap(idx)
                     d1 == IF d[f.arr][i] = 0
                           THEN [d EXCEPT
                                   ![f.len] = @ + 1,
                                   ![f.min] = Some(IF IsSome(@) THEN Min2(Unwrap(@), i) ELSE i),
                                   ![f.max] = Some(IF IsSome(@) THEN Max2(Unwrap(@), i) ELSE i)]
                           ELSE d
                 IN DenseSeedSide([d1 EXCEPT ![f.arr] = [@ EXCEPT ![i] = size]],
                                  f, Tail(levels))

DenseSeedFromLevels(d, bids, asks) ==
    DenseSeedSide(DenseSeedSide(DenseReset(d), DenseSideFields(0), bids),
                  DenseSideFields(1), asks)

\* variant: both sides are walked upwards
DenseWalk_fwd(d, f, order) ==
    IF IsSome(d[f.min]) /\ IsSome(d[f.max])
    THEN LET occupied == {i \in Unwrap(d[f.min])..Unwrap(d[f.max]) : d[f.arr][i] # 0}
             idxs == SortAsc(occupied)
         IN [k \in 1..Len(idxs) |->
                <<d.min_price_int + idxs[k] * d.tick_size_int, d[f.arr][idxs[k]]>>]
    ELSE << >>

\* the indices min..=max that hold a non-zero size, in walking order
DenseWalk(d, f, order) ==
    IF IsSome(d[f.min]) /\ IsSome(d[f.max])
    THEN LET occupied == {i \in Unwrap(d[f.min])..Unwrap(d[f.max]) : d[f.arr][i] # 0}
             idxs == IF order = "rev" THEN SortDesc(occupied) ELSE SortAsc(occupied)
         IN [k \in 1..Len(idxs) |->
                <<d.min_price_int + idxs[k] * d.tick_size_int, d[f.arr][idxs[k]]>>]
    ELSE << >>

DenseLevels(d) ==
    <<DenseWalk(d, DenseSideFields(0), "rev"), DenseWalk(d, DenseSideFields(1), "fwd")>>

DenseGet(d, f, price_int) ==
    LET idx == price_to_index(d, price_int)
    IN IF IsNone(idx) THEN None
       ELSE IF d[f.arr][Unwrap(idx)] = 0 THEN None
       ELSE Some(d[f.arr][Unwrap(idx)])

(***************************************************************************)
(* types.rs: OrderBook, the dispatch on the storage.                       *)
(***************************************************************************)
new_dense(min_price_int, max_price_int, tick_size_int) ==
    LET r == DenseNew(min_price_int, max_price_int, tick_size_int)
    IN IF r.ok THEN Ok([storage |-> "Dense", dense |-> r.value]) ELSE r

reset(book) ==
    IF book.storage = "BTree" THEN BTreeReset(book)
    ELSE [book EXCEPT !.dense = DenseReset(@)]

apply_update(book, u) ==
    IF book.storage = "BTree" THEN BTreeApplyUpdate(book, u)
    ELSE [book EXCEPT !.dense = DenseApplyUpdate(@, u)]

\* variant: the two lists are taken for each other
seed_from_levels_swapped(book, bids, asks) ==
    IF book.storage = "BTree" THEN BTreeSeedFromLevels(book, asks, bids)
    ELSE [book EXCEPT !.dense = DenseSeedFromLevels(@, asks, bids)]

seed_from_levels(book, bids, asks) ==
    IF book.storage = "BTree" THEN BTreeSeedFromLevels(book, bids, asks)
    ELSE [book EXCEPT !.dense = DenseSeedFromLevels(@, bids, asks)]

levels(book) ==
    IF book.storage = "BTree" THEN BTreeLevels(book) ELSE DenseLevels(book.dense)

bids_len(book) ==
    IF book.storage = "BTree" THEN Cardinality(DOMAIN book.bids) ELSE book.dense.bids_len

asks_len(book) ==
    IF book.storage = "BTree" THEN Cardinality(DOMAIN book.asks) ELSE book.dense.asks_len

bid_at(book, price_int) ==
    IF book.storage = "BTree" THEN MapGet(book.bids, price_int)
    ELSE DenseGet(book.dense, DenseSideFields(0), price_int)

ask_at(book, price_int) ==
    IF book.storage = "BTree" THEN MapGet(book.asks, price_int)
    ELSE DenseGet(book.dense, DenseSideFields(1), price_int)

\* arrow_utils.rs book_levels: the two sides best to worst, as levels() gives them
book_levels(book) == levels(book)

(***************************************************************************)
(* replay.rs: SnapshotReset.                                               *)
(***************************************************************************)
snapshot_group_key(u) == <<u.ts_local_us, u.file_id>>

\* SnapshotReset::apply on the pair (snapshot_key, book)
SnapshotResetApply(snapshot_key, book, u) ==
    LET starts == u.is_snapshot /\ snapshot_key # Some(snapshot_group_key(u))
        key1 == IF u.is_snapshot THEN Some(snapshot_group_key(u)) ELSE None
        book1 == IF starts THEN reset(book) ELSE book
    IN [snapshot_key |-> key1, book |-> apply_update(book1, u)]

(***************************************************************************)
(* replay.rs: CadenceState.                                                *)
(***************************************************************************)
CadenceDefault == [last_emit_ts |-> None, updates_since_emit |-> 0]

record_update(cadence, should_count) ==
    IF should_count THEN [cadence EXCEPT !.updates_since_emit = @ + 1] ELSE cadence

\* variant: an emission leaves updates_since_emit as it is
should_emit_no_restart(cadence, pos_ts, every_us, every_updates) ==
    LET c1 == IF IsNone(cadence.last_emit_ts)
              THEN [cadence EXCEPT !.last_emit_ts = Some(pos_ts)]
              ELSE cadence
        by_time == IsSome(every_us) /\ IsSome(c1.last_emit_ts)
                   /\ pos_ts - Unwrap(c1.last_emit_ts) >= Unwrap(every_us)
        by_count == IsSome(every_updates) /\ Unwrap(every_updates) > 0
                    /\ c1.updates_since_emit >= Unwrap(every_updates)
        emit == by_time \/ by_count
    IN [cadence |-> IF emit THEN [c1 EXCEPT !.last_emit_ts = Some(pos_ts)] ELSE c1,
        emit |-> emit]

\* variant: the elapsed time has to exceed every_us
should_emit_strict(cadence, pos_ts, every_us, every_updates) ==
    LET c1 == IF IsNone(cadence.last_emit_ts)
              THEN [cadence EXCEPT !.last_emit_ts = Some(pos_ts)]
              ELSE cadence
        by_time == IsSome(every_us) /\ IsSome(c1.last_emit_ts)
                   /\ pos_ts - Unwrap(c1.last_emit_ts) > Unwrap(every_us)
        by_count == IsSome(every_updates) /\ Unwrap(every_updates) > 0
                    /\ c1.updates_since_emit >= Unwrap(every_updates)
        emit == by_time \/ by_count
    IN [cadence |-> IF emit
                    THEN [c1 EXCEPT !.last_emit_ts = Some(pos_ts), !.updates_since_emit = 0]
                    ELSE c1,
        emit |-> emit]

\* variant: an emission by count leaves last_emit_ts as it is
should_emit_count_keeps_ts(cadence, pos_ts, every_us, every_updates) ==
    LET c1 == IF IsNone(cadence.last_emit_ts)
              THEN [cadence EXCEPT !.last_emit_ts = Some(pos_ts)]
              ELSE cadence
        by_time == IsSome(every_us) /\ IsSome(c1.last_emit_ts)
                   /\ pos_ts - Unwrap(c1.last_emit_ts) >= Unwrap(every_us)
        by_count == IsSome(every_updates) /\ Unwrap(every_updates) > 0
                    /\ c1.updates_since_emit >= Unwrap(every_updates)
        emit == by_time \/ by_count
    IN [cadence |-> IF emit
                    THEN [c1 EXCEPT !.last_emit_ts = IF by_time THEN Some(pos_ts) ELSE @,
                                    !.updates_since_emit = 0]
                    ELSE c1,
        emit |-> emit]

\* should_emit: the cadence state afterwards and the vote
should_emit(cadence, pos_ts, every_us, every_updates) ==
    LET c1 == IF IsNone(cadence.last_emit_ts)
              THEN [cadence EXCEPT !.last_emit_ts = Some(pos_ts)]
              ELSE cadence
        by_time == IsSome(every_us) /\ IsSome(c1.last_emit_ts)
                   /\ pos_ts - Unwrap(c1.last_emit_ts) >= Unwrap(every_us)
        by_count == IsSome(every_updates) /\ Unwrap(every_updates) > 0
                    /\ c1.updates_since_emit >= Unwrap(every_updates)
        emit == by_time \/ by_count
    IN [cadence |-> IF emit
                    THEN [c1 EXCEPT !.last_emit_ts = Some(pos_ts), !.updates_since_emit = 0]
                    ELSE c1,
        emit |-> emit]

(***************************************************************************)
(* replay.rs: replay, the callback API.  A callback invocation is recorded *)
(* with the book and position it was given and with the number of updates  *)
(* applied to the book when it was made.                                   *)
(***************************************************************************)
ReplayInit ==
    [pc |-> "loop",
     book |-> OrderBookDefault,
     prev_key |-> None,
     snapshot_key |-> None,
     snapshot_pos |-> None,
     cadence |-> CadenceDefault,
     last_pos |-> None,
     applied |-> 0,
     on_snapshot |-> << >>,
     on_checkpoint |-> << >>,
     panic |-> None]

\* the condition of the monotonic guard (replay.rs 96-105)
\* variant: a key equal to the previous key is rejected too
out_of_order_or_equal(validate_monotonic, prev_key, key) ==
    validate_monotonic /\ IsSome(prev_key) /\ ~TupleLess(Unwrap(prev_key), key)

out_of_order(validate_monotonic, prev_key, key) ==
    validate_monotonic /\ IsSome(prev_key) /\ TupleLess(key, Unwrap(prev_key))

\* variant: the emission is evaluated on every row, not only at a boundary
ts_boundary_every_row(last_pos, u) == IsSome(last_pos)

ts_boundary_on_file(last_pos, u) ==
    /\ IsSome(last_pos)
    /\ \/ u.ts_local_us # Unwrap(last_pos).ts_local_us
       \/ u.file_id # Unwrap(last_pos).file_id

\* "1. Check boundary": a timestamp boundary has been crossed
ts_boundary(last_pos, u) ==
    IsSome(last_pos) /\ u.ts_local_us # Unwrap(last_pos).ts_local_us

\* the emissions for the completed group at last_pos (replay.rs 112-125, 165-178)
ReplayEmit(cfg, s) ==
    LET pos == Unwrap(s.last_pos)
        snap == IsSome(s.snapshot_key) /\ IsSome(s.snapshot_pos)
        vote == should_emit(s.cadence, pos.ts_local_us,
                            cfg.checkpoint_every_us, cfg.checkpoint_every_updates)
    IN [s EXCEPT
          !.on_snapshot = IF snap
                          THEN Append(@, [book |-> s.book, pos |-> Unwrap(s.snapshot_pos),
                                          at |-> s.applied])
                          ELSE @,
          !.cadence = vote.cadence,
          !.on_checkpoint = IF vote.emit
                            THEN Append(@, [book |-> s.book, pos |-> pos, at |-> s.applied])
                            ELSE @]

\* variant: a new snapshot group does not reset the book
ReplayApply_no_reset(s, u) ==
    [s EXCEPT
       !.snapshot_key = IF u.is_snapshot THEN Some(snapshot_group_key(u)) ELSE None,
       !.snapshot_pos = IF u.is_snapshot THEN Some(StreamPos(u)) ELSE None,
       !.book = apply_update(s.book, u)]

\* variant: an incremental row does not close the open snapshot group
ReplayApply_group_kept(s, u) ==
    LET starts == u.is_snapshot /\ s.snapshot_key # Some(snapshot_group_key(u))
        book1 == IF starts THEN reset(s.book) ELSE s.book
    IN [s EXCEPT
          !.snapshot_key = IF u.is_snapshot THEN Some(snapshot_group_key(u)) ELSE @,
          !.snapshot_pos = IF u.is_snapshot THEN Some(StreamPos(u)) ELSE @,
          !.book = apply_update(book1, u)]

\* variant: every snapshot row resets the book
ReplayApply_reset_each(s, u) ==
    LET book1 == IF u.is_snapshot THEN reset(s.book) ELSE s.book
    IN [s EXCEPT
          !.snapshot_key = IF u.is_snapshot THEN Some(snapshot_group_key(u)) ELSE None,
          !.snapshot_pos = IF u.is_snapshot THEN Some(StreamPos(u)) ELSE None,
          !.book = apply_update(book1, u)]

\* "2. Apply update": the snapshot-group handling written inline in replay
ReplayApply(s, u) ==
    LET starts == u.is_snapshot /\ s.snapshot_key # Some(snapshot_group_key(u))
        book1 == IF starts THEN reset(s.book) ELSE s.book
    IN [s EXCEPT
          !.snapshot_key = IF u.is_snapshot THEN Some(snapshot_group_key(u)) ELSE None,
          !.snapshot_pos = IF u.is_snapshot THEN Some(StreamPos(u)) ELSE None,
          !.book = apply_update(book1, u)]

\* one iteration of `for update in updates`
\* variant: the boundary emission is made before the monotonic guard
ReplayStep_emit_first(cfg, s, u) ==
    LET s0 == IF ts_boundary(s.last_pos, u)
              THEN [ReplayEmit(cfg, s) EXCEPT !.snapshot_key = None,
                                              !.snapshot_pos = None]
              ELSE s
    IN IF out_of_order(cfg.validate_monotonic, s0.prev_key, current_key(u))
       THEN [s0 EXCEPT !.pc = "panic",
                       !.panic = Some([prev |-> Unwrap(s0.prev_key),
                                       current |-> current_key(u)])]
       ELSE LET s3 == ReplayApply([s0 EXCEPT !.prev_key = Some(current_key(u))], u)
            IN [s3 EXCEPT !.cadence = record_update(@, TRUE),
                          !.last_pos = Some(StreamPos(u)),
                          !.applied = @ + 1]

ReplayStep(cfg, s, u) ==
    IF out_of_order(cfg.validate_monotonic, s.prev_key, current_key(u))
    THEN [s EXCEPT !.pc = "panic",
                   !.panic = Some([prev |-> Unwrap(s.prev_key), current |-> current_key(u)])]
    ELSE LET s1 == [s EXCEPT !.prev_key = Some(current_key(u))]
             s2 == IF ts_boundary(s1.last_pos, u)
                   THEN [ReplayEmit(cfg, s1) EXCEPT !.snapshot_key = None,
                                                    !.snapshot_pos = None]
                   ELSE s1
             s3 == ReplayApply(s2, u)
         IN [s3 EXCEPT !.cadence = record_update(@, TRUE),
                       !.last_pos = Some(StreamPos(u)),
                       !.applied = @ + 1]

\* "Handle final group", after the iterator is exhausted
\* variant: the end of the stream evaluates the cadence only
ReplayFinal_no_snapshot(cfg, s) ==
    [(IF IsSome(s.last_pos)
      THEN [ReplayEmit(cfg, s) EXCEPT !.on_snapshot = s.on_snapshot]
      ELSE s) EXCEPT !.pc = "done"]

ReplayFinal(cfg, s) ==
    [(IF IsSome(s.last_pos) THEN ReplayEmit(cfg, s) ELSE s) EXCEPT !.pc = "done"]

\* replay over a whole stream
RECURSIVE ReplayFrom(_, _, _)
ReplayFrom(cfg, s, updates) ==
    IF s.pc = "panic" THEN s
    ELSE IF updates = << >> THEN ReplayFinal(cfg, s)
    ELSE ReplayFrom(cfg, ReplayStep(cfg, s, Head(updates)), Tail(updates))

replay(updates, cfg) == ReplayFrom(cfg, ReplayInit, updates)

ReplayConfigDefault ==
    [checkpoint_every_us |-> None, checkpoint_every_updates |-> None,
     validate_monotonic |-> FALSE]

(***************************************************************************)
(* utils.rs.  Time is scaled: a civil day has DayLen microseconds, and a   *)
(* NaiveDate is the number of its day since the epoch.  A string is the    *)
(* sequence of its characters.                                             *)
(***************************************************************************)
\* a negative ts_local_us with a fraction of a second gives a negative micros,
\* which wraps to an invalid nanosecond count
ts_to_date(ts_local_us) ==
    IF ts_local_us < 0 /\ ts_local_us % SecLen # 0 THEN Err("invalid ts_local_us")
    ELSE Ok(ts_local_us \div DayLen)

date_to_days(date) == date
days_to_date(days) == Ok(days)

date_to_ts_local_us(date, end_of_day) ==
    IF end_of_day THEN date * DayLen + (DayLen - 1) ELSE date * DayLen

\* lib.rs has a private function of the same name
RECURSIVE lib_escape_sql_string(_)
lib_escape_sql_string(value) ==
    IF value = << >> THEN << >>
    ELSE (IF Head(value) = "'" THEN <<"'", "'">> ELSE <<Head(value)>>)
         \o lib_escape_sql_string(Tail(value))

RECURSIVE escape_sql_string(_)
escape_sql_string(value) ==
    IF value = << >> THEN << >>
    ELSE (IF Head(value) = "\"" THEN <<"'", "'">> ELSE <<Head(value)>>)
         \o escape_sql_string(Tail(value))

(***************************************************************************)
(* io.rs: the stream-position predicate and the checkpoint lookup.         *)
(***************************************************************************)
\* variant: file_line_number is compared before file_id
after_pos_expr_line_first(pos, row) ==
    \/ row.ts_local_us > pos.ts_local_us
    \/ /\ row.ts_local_us = pos.ts_local_us
       /\ \/ row.ingest_seq > pos.ingest_seq
          \/ /\ row.ingest_seq = pos.ingest_seq
             /\ \/ row.file_line_number > pos.file_line_number
                \/ /\ row.file_line_number = pos.file_line_number
                   /\ row.file_id > pos.file_id

\* variant: the row at the position itself passes
after_pos_expr_inclusive(pos, row) ==
    \/ row.ts_local_us > pos.ts_local_us
    \/ /\ row.ts_local_us = pos.ts_local_us
       /\ \/ row.ingest_seq > pos.ingest_seq
          \/ /\ row.ingest_seq = pos.ingest_seq
             /\ \/ row.file_id > pos.file_id
                \/ /\ row.file_id = pos.file_id
                   /\ row.file_line_number >= pos.file_line_number

after_pos_expr(pos, row) ==
    \/ row.ts_local_us > pos.ts_local_us
    \/ /\ row.ts_local_us = pos.ts_local_us
       /\ \/ row.ingest_seq > pos.ingest_seq
          \/ /\ row.ingest_seq = pos.ingest_seq
             /\ \/ row.file_id > pos.file_id
                \/ /\ row.file_id = pos.file_id
                   /\ row.file_line_number > pos.file_line_number

\* the row predicates build_updates_df adds to the scan of the selected
\* partitions: ts_local_us <= max_ts_inclusive and the after-position filter
ScanPredicate(row, max_ts_inclusive, min_pos_exclusive) ==
    /\ row.ts_local_us <= max_ts_inclusive
    /\ (IsSome(min_pos_exclusive) => after_pos_expr(Unwrap(min_pos_exclusive), row))

sort_key(row) == <<row.ts_local_us, row.ingest_seq, row.file_id, row.file_line_number>>

\* the rows latest_checkpoint keeps: partition and row filters
\* variant: the rows of every date partition are read
CheckpointCandidates_any_date(rows, exchange, exchange_id, symbol_id, ts_local_us, target_date) ==
    {i \in DOMAIN rows :
        /\ (IsSome(exchange) => rows[i].exchange = Unwrap(exchange))
        /\ rows[i].exchange_id = exchange_id
        /\ rows[i].symbol_id = symbol_id
        /\ rows[i].ts_local_us <= ts_local_us}

CheckpointCandidates(rows, exchange, exchange_id, symbol_id, ts_local_us, target_date) ==
    {i \in DOMAIN rows :
        /\ (IsSome(exchange) => rows[i].exchange = Unwrap(exchange))
        /\ rows[i].date = target_date
        /\ rows[i].exchange_id = exchange_id
        /\ rows[i].symbol_id = symbol_id
        /\ rows[i].ts_local_us <= ts_local_us}

\* the table latest_checkpoint opens: none when there is no path, no table at
\* the path, or no date for the timestamp
latest_checkpoint_io(checkpoint_path, tbl, ts_local_us) ==
    IF IsNone(checkpoint_path) \/ IsNone(tbl) \/ ~ts_to_date(ts_local_us).ok THEN << >>
    ELSE <<"open_table(checkpoint_path)">>

\* latest_checkpoint: sort descending on the four keys, limit 1
latest_checkpoint(checkpoint_path, tbl, exchange, exchange_id, symbol_id, ts_local_us) ==
    IF IsNone(checkpoint_path) \/ IsNone(tbl) THEN Ok(None)
    ELSE LET date == ts_to_date(ts_local_us)
         IN IF ~date.ok THEN date
            ELSE LET rows == Unwrap(tbl)
                     cand == CheckpointCandidates(rows, exchange, exchange_id, symbol_id,
                                                  ts_local_us, date.value)
                 IN IF cand = {} THEN Ok(None)
                    ELSE LET top == CHOOSE i \in cand : \A j \in cand :
                                        ~TupleLess(sort_key(rows[i]), sort_key(rows[j]))
                         IN Ok(Some([ts_local_us |-> rows[top].ts_local_us,
                                     file_id |-> rows[top].file_id,
                                     ingest_seq |-> rows[top].ingest_seq,
                                     file_line_number |-> rows[top].file_line_number,
                                     bids |-> rows[top].bids,
                                     asks |-> rows[top].asks]))

(***************************************************************************)
(* arrow_utils.rs: decoding a row of the updates table.  A stored row      *)
(* carries the Arrow type of its side column in side_type and the stored   *)
(* value in side.                                                          *)
(***************************************************************************)
\* `value as u8` on an i8
as_u8(value) == value % 256

\* variant: a negative int8 value is converted like any other
get_u8_value_wraps(array_type, value) ==
    IF array_type = "UInt8" THEN Ok(value)
    ELSE IF array_type = "Int8" THEN Ok(as_u8(value))
    ELSE Err("column side has unexpected type")

get_u8_value(array_type, value) ==
    IF array_type = "UInt8" THEN Ok(value)
    ELSE IF array_type = "Int8"
    THEN IF value < 0 THEN Err("column side has negative value")
         ELSE Ok(as_u8(value))
    ELSE Err("column side has unexpected type")

update_from_columns(cols) ==
    LET side == get_u8_value(cols.side_type, cols.side)
    IN IF ~side.ok THEN side
       ELSE Ok(L2Update(cols.ts_local_us, cols.ingest_seq, cols.file_line_number,
                        cols.is_snapshot, side.value, cols.price_int, cols.size_int,
                        cols.file_id))

checkpoint_update_from_columns(cols) ==
    LET side == get_u8_value(cols.side_type, cols.side)
    IN IF ~side.ok THEN side
       ELSE Ok([ts_local_us |-> cols.ts_local_us, ingest_seq |-> cols.ingest_seq,
                file_line_number |-> cols.file_line_number,
                is_snapshot |-> cols.is_snapshot, side |-> side.value,
                price_int |-> cols.price_int, size_int |-> cols.size_int,
                file_id |-> cols.file_id,
                exchange_id |-> cols.exchange_id, symbol_id |-> cols.symbol_id])

(***************************************************************************)
(* ops.rs: replay_between_delta.                                           *)
(***************************************************************************)
build_order_book(dense_price_min, dense_price_max, dense_tick_size) ==
    IF IsSome(dense_price_min) /\ IsSome(dense_price_max) /\ IsSome(dense_tick_size)
    THEN new_dense(Unwrap(dense_price_min), Unwrap(dense_price_max), Unwrap(dense_tick_size))
    ELSE IF IsNone(dense_price_min) /\ IsNone(dense_price_max) /\ IsNone(dense_tick_size)
    THEN Ok(OrderBookDefault)
    ELSE Err("dense_price_min, dense_price_max, dense_tick_size must be all set or all None")

unwrap_or(o, default) == IF IsSome(o) THEN Unwrap(o) ELSE default

\* an error return; io lists the table operations the call made before it
Failed(message, io) == [pc |-> "error", error |-> message, io |-> io]

\* a checkpoint as a stream position
CheckpointPos(c) ==
    [ts_local_us |-> c.ts_local_us, ingest_seq |-> c.ingest_seq,
     file_line_number |-> c.file_line_number, file_id |-> c.file_id]

\* the call up to the row loop (ops.rs 143-225)
\* variant: the call is refused when either cadence is missing
BetweenInit_either_unset(cfg, tbl) ==
    IF unwrap_or(cfg.every_us, 0) <= 0 \/ unwrap_or(cfg.every_updates, 0) = 0
    THEN Failed("replay_between: set every_us or every_updates", << >>)
    ELSE IF ~ts_to_date(cfg.start_ts_local_us).ok \/ ~ts_to_date(cfg.end_ts_local_us).ok
    THEN Failed("invalid ts_local_us", << >>)
    ELSE LET checkpoint == latest_checkpoint(cfg.checkpoint_path, tbl, cfg.exchange,
                                             cfg.exchange_id, cfg.symbol_id,
                                             cfg.start_ts_local_us)
             io == latest_checkpoint_io(cfg.checkpoint_path, tbl, cfg.start_ts_local_us)
             book == build_order_book(cfg.dense_price_min, cfg.dense_price_max,
                                      cfg.dense_tick_size)
         IN IF ~checkpoint.ok THEN Failed(checkpoint.err, io)
            ELSE IF ~book.ok THEN Failed(book.err, io)
            ELSE LET c == checkpoint.value
                 IN [pc |-> "loop",
                     io |-> Append(io, "open_table(updates_path)"),
                     book |-> IF IsSome(c)
                              THEN seed_from_levels(book.value, Unwrap(c).bids, Unwrap(c).asks)
                              ELSE book.value,
                     min_pos |-> IF IsSome(c) THEN Some(CheckpointPos(Unwrap(c))) ELSE None,
                     snapshot_key |-> None,
                     cadence |-> CadenceDefault,
                     last_pos |-> None,
                     applied |-> 0,
                     rows |-> << >>,
                     emitted_at |-> << >>]

BetweenInit(cfg, tbl) ==
    IF unwrap_or(cfg.every_us, 0) <= 0 /\ unwrap_or(cfg.every_updates, 0) = 0
    THEN Failed("replay_between: set every_us or every_updates", << >>)
    ELSE IF ~ts_to_date(cfg.start_ts_local_us).ok \/ ~ts_to_date(cfg.end_ts_local_us).ok
    THEN Failed("invalid ts_local_us", << >>)
    ELSE LET checkpoint == latest_checkpoint(cfg.checkpoint_path, tbl, cfg.exchange,
                                             cfg.exchange_id, cfg.symbol_id,
                                             cfg.start_ts_local_us)
             io == latest_checkpoint_io(cfg.checkpoint_path, tbl, cfg.start_ts_local_us)
             book == build_order_book(cfg.dense_price_min, cfg.dense_price_max,
                                      cfg.dense_tick_size)
         IN IF ~checkpoint.ok THEN Failed(checkpoint.err, io)
            ELSE IF ~book.ok THEN Failed(book.err, io)
            ELSE LET c == checkpoint.value
                 IN [pc |-> "loop",
                     io |-> Append(io, "open_table(updates_path)"),
                     book |-> IF IsSome(c)
                              THEN seed_from_levels(book.value, Unwrap(c).bids, Unwrap(c).asks)
                              ELSE book.value,
                     min_pos |-> IF IsSome(c) THEN Some(CheckpointPos(Unwrap(c))) ELSE None,
                     snapshot_key |-> None,
                     cadence |-> CadenceDefault,
                     last_pos |-> None,
                     applied |-> 0,
                     rows |-> << >>,
                     emitted_at |-> << >>]

\* one row of the output batch, at the position pos
BetweenRow(cfg, book, pos) ==
    LET lv == book_levels(book)
    IN [exchange_id |-> cfg.exchange_id, symbol_id |-> cfg.symbol_id,
        ts_local_us |-> pos.ts_local_us, ingest_seq |-> pos.ingest_seq,
        file_line_number |-> pos.file_line_number, file_id |-> pos.file_id,
        bids |-> lv[1], asks |-> lv[2]]

\* the emission logic for the group at last_pos (ops.rs 264-284, 313-332)
\* variant: the vote is asked for a group before the start as well
BetweenEmit_any_ts(cfg, s) ==
    LET pos == Unwrap(s.last_pos)
        vote == should_emit(s.cadence, pos.ts_local_us, cfg.every_us, cfg.every_updates)
    IN [s EXCEPT
          !.cadence = vote.cadence,
          !.rows = IF vote.emit THEN Append(@, BetweenRow(cfg, s.book, pos)) ELSE @,
          !.emitted_at = IF vote.emit THEN Append(@, s.applied) ELSE @]

BetweenEmit(cfg, s) ==
    LET pos == Unwrap(s.last_pos)
    IN IF pos.ts_local_us >= cfg.start_ts_local_us
       THEN LET vote == should_emit(s.cadence, pos.ts_local_us, cfg.every_us,
                                    cfg.every_updates)
            IN [s EXCEPT
                  !.cadence = vote.cadence,
                  !.rows = IF vote.emit THEN Append(@, BetweenRow(cfg, s.book, pos)) ELSE @,
                  !.emitted_at = IF vote.emit THEN Append(@, s.applied) ELSE @]
       ELSE s

\* the body of the row loop, for a row the stream delivered (ops.rs 250-305)
\* variant: the loop compares the row with the checkpoint position itself
BetweenApply_checks_pos(cfg, s, u) ==
    IF IsSome(s.min_pos) /\ ~after_pos_expr(Unwrap(s.min_pos), u) THEN s
    ELSE LET s1 == IF ts_boundary(s.last_pos, u) THEN BetweenEmit(cfg, s) ELSE s
             r == SnapshotResetApply(s1.snapshot_key, s1.book, u)
         IN [s1 EXCEPT
               !.snapshot_key = r.snapshot_key,
               !.book = r.book,
               !.cadence = record_update(@, u.ts_local_us >= cfg.start_ts_local_us),
               !.last_pos = Some(StreamPos(u)),
               !.applied = @ + 1]

BetweenApply(cfg, s, u) ==
    LET s1 == IF ts_boundary(s.last_pos, u) THEN BetweenEmit(cfg, s) ELSE s
        r == SnapshotResetApply(s1.snapshot_key, s1.book, u)
    IN [s1 EXCEPT
          !.snapshot_key = r.snapshot_key,
          !.book = r.book,
          !.cadence = record_update(@, u.ts_local_us >= cfg.start_ts_local_us),
          !.last_pos = Some(StreamPos(u)),
          !.applied = @ + 1]

\* one row of the scanned partitions: the filters of build_updates_df, then
\* the body of the row loop
BetweenStep(cfg, s, u) ==
    IF ~ScanPredicate(u, cfg.end_ts_local_us, s.min_pos) THEN s
    ELSE BetweenApply(cfg, s, u)

\* "Handle final group after stream ends", and the batch is returned
\* variant: the batch is returned as the loop left it
BetweenFinal_no_flush(cfg, s) == [s EXCEPT !.pc = "done"]

BetweenFinal(cfg, s) ==
    [(IF IsSome(s.last_pos) THEN BetweenEmit(cfg, s) ELSE s) EXCEPT !.pc = "done"]

(***************************************************************************)
(* ops.rs: build_state_checkpoints_delta.  The row loop, then the write    *)
(* phase: one delete transaction per touched partition, then one append.   *)
(***************************************************************************)
filter_positive(o) == IF IsSome(o) /\ Unwrap(o) > 0 THEN o ELSE None

\* the call up to the row loop (ops.rs 386-428)
BuildInit(cfg) ==
    LET every_us == filter_positive(cfg.checkpoint_every_us)
        every_updates == filter_positive(cfg.checkpoint_every_updates)
    IN IF IsNone(every_us) /\ IsNone(every_updates)
       THEN Failed("build_state_checkpoints: at least one cadence must be set", << >>)
       ELSE IF IsNone(cfg.exchange)
       THEN Failed("build_state_checkpoints: exchange is required", << >>)
       ELSE [pc |-> "loop",
             io |-> <<"open_table(updates_path)">>,
             exchange |-> Unwrap(cfg.exchange),
             every_us |-> every_us,
             every_updates |-> every_updates,
             start_ts |-> date_to_ts_local_us(cfg.start_date, FALSE),
             end_ts |-> date_to_ts_local_us(cfg.end_date, TRUE),
             rows |-> << >>,
             book |-> OrderBookDefault,
             snapshot_key |-> None,
             cadence |-> CadenceDefault,
             prev_key |-> None,
             last_pos |-> None,
             last_meta |-> None,
             applied |-> 0,
             emitted_at |-> << >>,
             partitions |-> {},
             panic |-> None,
             error |-> None,
             result |-> None]

CheckpointMeta(row) == [exchange_id |-> row.exchange_id, symbol_id |-> row.symbol_id]

CheckpointRow(s, pos, date_days) ==
    LET lv == book_levels(s.book)
        meta_ref == Unwrap(s.last_meta)
    IN [exchange |-> s.exchange,
        exchange_id |-> meta_ref.exchange_id,
        symbol_id |-> meta_ref.symbol_id,
        date |-> date_days,
        ts_local_us |-> pos.ts_local_us,
        bids |-> lv[1],
        asks |-> lv[2],
        file_id |-> pos.file_id,
        ingest_seq |-> pos.ingest_seq,
        file_line_number |-> pos.file_line_number,
        checkpoint_kind |-> "periodic"]

\* the emission logic for the group at last_pos (ops.rs 467-489, 509-529)
BuildEmit(s) ==
    LET pos == Unwrap(s.last_pos)
        vote == should_emit(s.cadence, pos.ts_local_us, s.every_us, s.every_updates)
        date == ts_to_date(pos.ts_local_us)
    IN IF ~vote.emit THEN [s EXCEPT !.cadence = vote.cadence]
       ELSE IF ~date.ok
       THEN [s EXCEPT !.cadence = vote.cadence, !.pc = "error", !.error = Some(date.err)]
       ELSE [s EXCEPT
               !.cadence = vote.cadence,
               !.rows = Append(@, CheckpointRow(s, pos, date_to_days(date.value))),
               !.emitted_at = Append(@, s.applied)]

in_window(s, u) == ~(u.ts_local_us < s.start_ts \/ u.ts_local_us > s.end_ts)

\* one row of the scan (ops.rs 438-504)
\* variant: last_meta keeps the meta of the first row
BuildStep_first_meta(cfg, s, u) ==
    IF ~in_window(s, u) THEN s
    ELSE IF out_of_order(cfg.validate_monotonic, s.prev_key, current_key(u))
    THEN [s EXCEPT !.pc = "panic",
                   !.panic = Some([prev |-> Unwrap(s.prev_key), current |-> current_key(u)])]
    ELSE LET s1 == IF ts_boundary(s.last_pos, u) THEN BuildEmit(s) ELSE s
             r == SnapshotResetApply(s1.snapshot_key, s1.book, u)
         IN IF s1.pc = "error" THEN s1
            ELSE [s1 EXCEPT
                    !.prev_key = IF cfg.validate_monotonic THEN Some(current_key(u)) ELSE @,
                    !.snapshot_key = r.snapshot_key,
                    !.book = r.book,
                    !.cadence = record_update(@, TRUE),
                    !.last_pos = Some(StreamPos(u)),
                    !.last_meta = IF IsSome(@) THEN @ ELSE Some(CheckpointMeta(u)),
                    !.applied = @ + 1]

\* variant: last_meta is set by the rows that start a later timestamp group
BuildStep_meta_at_boundary(cfg, s, u) ==
    IF ~in_window(s, u) THEN s
    ELSE IF out_of_order(cfg.validate_monotonic, s.prev_key, current_key(u))
    THEN [s EXCEPT !.pc = "panic",
                   !.panic = Some([prev |-> Unwrap(s.prev_key), current |-> current_key(u)])]
    ELSE LET s1 == IF ts_boundary(s.last_pos, u) THEN BuildEmit(s) ELSE s
             r == SnapshotResetApply(s1.snapshot_key, s1.book, u)
         IN IF s1.pc = "error" THEN s1
            ELSE [s1 EXCEPT
                    !.prev_key = IF cfg.validate_monotonic THEN Some(current_key(u)) ELSE @,
                    !.snapshot_key = r.snapshot_key,
                    !.book = r.book,
                    !.cadence = record_update(@, TRUE),
                    !.last_pos = Some(StreamPos(u)),
                    !.last_meta = IF ts_boundary(s.last_pos, u)
                                  THEN Some(CheckpointMeta(u)) ELSE @,
                    !.applied = @ + 1]

\* variant: last_pos keeps the first row of a timestamp group
BuildStep_first_pos(cfg, s, u) ==
    IF ~in_window(s, u) THEN s
    ELSE IF out_of_order(cfg.validate_monotonic, s.prev_key, current_key(u))
    THEN [s EXCEPT !.pc = "panic",
                   !.panic = Some([prev |-> Unwrap(s.prev_key), current |-> current_key(u)])]
    ELSE LET s1 == IF ts_boundary(s.last_pos, u) THEN BuildEmit(s) ELSE s
             r == SnapshotResetApply(s1.snapshot_key, s1.book, u)
         IN IF s1.pc = "error" THEN s1
            ELSE [s1 EXCEPT
                    !.prev_key = IF cfg.validate_monotonic THEN Some(current_key(u)) ELSE @,
                    !.snapshot_key = r.snapshot_key,
                    !.book = r.book,
                    !.cadence = record_update(@, TRUE),
                    !.last_pos = IF IsSome(@) /\ Unwrap(@).ts_local_us = u.ts_local_us
                                 THEN @ ELSE Some(StreamPos(u)),
                    !.last_meta = Some(CheckpointMeta(u)),
                    !.applied = @ + 1]

BuildStep(cfg, s, u) ==
    IF ~in_window(s, u) THEN s
    ELSE IF out_of_order(cfg.validate_monotonic, s.prev_key, current_key(u))
    THEN [s EXCEPT !.pc = "panic",
                   !.panic = Some([prev |-> Unwrap(s.prev_key), current |-> current_key(u)])]
    ELSE LET s1 == IF ts_boundary(s.last_pos, u) THEN BuildEmit(s) ELSE s
             r == SnapshotResetApply(s1.snapshot_key, s1.book, u)
         IN IF s1.pc = "error" THEN s1
            ELSE [s1 EXCEPT
                    !.prev_key = IF cfg.validate_monotonic THEN Some(current_key(u)) ELSE @,
                    !.snapshot_key = r.snapshot_key,
                    !.book = r.book,
                    !.cadence = record_update(@, TRUE),
                    !.last_pos = Some(StreamPos(u)),
                    !.last_meta = Some(CheckpointMeta(u)),
                    !.applied = @ + 1]

touched_partitions(rows) ==
    {<<rows[i].exchange, rows[i].date, rows[i].symbol_id>> : i \in DOMAIN rows}

\* variant: a batch without rows is appended too
BuildFinal_writes_empty(cfg, s, tbl) ==
    LET s1 == IF IsSome(s.last_pos) THEN BuildEmit(s) ELSE s
    IN IF s1.pc = "error" THEN s1
       ELSE IF IsSome(tbl) /\ s1.rows # << >>
       THEN [s1 EXCEPT !.pc = "delete", !.partitions = touched_partitions(s1.rows),
                       !.io = Append(@, "open_table(output_path)")]
       ELSE [s1 EXCEPT !.pc = "append"]

\* variant: the error of the final group does not end the call
BuildFinal_past_error(cfg, s, tbl) ==
    LET s1 == IF IsSome(s.last_pos) THEN BuildEmit(s) ELSE s
    IN IF s1.rows = << >> THEN [s1 EXCEPT !.pc = "done", !.result = Some(0)]
       ELSE IF IsSome(tbl)
       THEN [s1 EXCEPT !.pc = "delete", !.partitions = touched_partitions(s1.rows),
                       !.io = Append(@, "open_table(output_path)")]
       ELSE [s1 EXCEPT !.pc = "append"]

\* the final group, and the decision where the call goes next (ops.rs 507-549)
BuildFinal(cfg, s, tbl) ==
    LET s1 == IF IsSome(s.last_pos) THEN BuildEmit(s) ELSE s
    IN IF s1.pc = "error" THEN s1
       ELSE IF s1.rows = << >> THEN [s1 EXCEPT !.pc = "done", !.result = Some(0)]
       ELSE IF IsSome(tbl)
       THEN [s1 EXCEPT !.pc = "delete", !.partitions = touched_partitions(s1.rows),
                       !.io = Append(@, "open_table(output_path)")]
       ELSE [s1 EXCEPT !.pc = "append"]

\* the text of the delete predicate (ops.rs 553-558)
delete_predicate(exchange, date, symbol_id) ==
    [exchange_literal |-> escape_sql_string(exchange),
     date |-> date,
     symbol_id |-> symbol_id]

\* the value a single-quoted SQL literal with this text between its quotes
\* denotes: '' stands for one quote, a lone quote ends the literal early and
\* the predicate does not parse
RECURSIVE sql_literal_value(_)
sql_literal_value(text) ==
    IF text = << >> THEN Ok(<< >>)
    ELSE IF Head(text) = "'"
    THEN IF Len(text) >= 2 /\ text[2] = "'"
         THEN LET rest == sql_literal_value(SubSeq(text, 3, Len(text)))
              IN IF rest.ok THEN Ok(<<"'">> \o rest.value) ELSE rest
         ELSE Err("delete existing checkpoint partitions")
    ELSE LET rest == sql_literal_value(Tail(text))
         IN IF rest.ok THEN Ok(<<Head(text)>> \o rest.value) ELSE rest

predicate_matches(row, exchange, predicate) ==
    /\ row.exchange = exchange
    /\ row.date = predicate.date
    /\ row.symbol_id = predicate.symbol_id

\* DeltaOps::delete().with_predicate(predicate) on the rows of the table
delta_delete(rows, predicate) ==
    LET exchange == sql_literal_value(predicate.exchange_literal)
    IN IF ~exchange.ok THEN exchange
       ELSE Ok(SelectSeq(rows, LAMBDA row : ~predicate_matches(row, exchange.value, predicate)))

\* one iteration of the partition loop (ops.rs 551-565)
BuildDeleteStep(s, tbl, partition) ==
    LET date == days_to_date(partition[2])
        deleted == delta_delete(Unwrap(tbl),
                                delete_predicate(partition[1], date.value, partition[3]))
        left == s.partitions \ {partition}
    IN IF ~deleted.ok
       THEN [st |-> [s EXCEPT !.pc = "error", !.error = Some(deleted.err)], table |-> tbl]
       ELSE [st |-> [s EXCEPT !.partitions = left,
                              !.pc = IF left = {} THEN "append" ELSE "delete",
                              !.io = Append(@, "delete")],
             table |-> Some(deleted.value)]

\* the append of the batch (ops.rs 575-588)
BuildAppendStep(s, tbl) ==
    [st |-> [s EXCEPT !.pc = "done", !.result = Some(Len(s.rows)),
                      !.io = Append(@, "write")],
     table |-> Some(unwrap_or(tbl, << >>) \o s.rows)]

\* the whole call on the rows of a scan and a checkpoint table
RECURSIVE BuildFrom(_, _, _, _)
BuildFrom(cfg, s, tbl, updates) ==
    IF s.pc = "loop"
    THEN IF updates = << >> THEN BuildFrom(cfg, BuildFinal(cfg, s, tbl), tbl, updates)
         ELSE BuildFrom(cfg, BuildStep(cfg, s, Head(updates)), tbl, Tail(updates))
    ELSE IF s.pc = "delete"
    THEN LET next == BuildDeleteStep(s, tbl, CHOOSE partition \in s.partitions : TRUE)
         IN BuildFrom(cfg, next.st, next.table, updates)
    ELSE IF s.pc = "append"
    THEN BuildAppendStep(s, tbl)
    ELSE [st |-> s, table |-> tbl]

build_state_checkpoints_delta(cfg, tbl, updates) ==
    BuildFrom(cfg, BuildInit(cfg), tbl, updates)

(***************************************************************************)
(* ops.rs: snapshot_at_delta.                                              *)
(***************************************************************************)
\* the call up to the scan (ops.rs 65-97)
SnapshotAtInit(cfg, tbl) ==
    LET fallback_date == ts_to_date(cfg.ts_local_us)
    IN IF ~fallback_date.ok THEN Failed(fallback_date.err, << >>)
       ELSE LET start_date == unwrap_or(cfg.start_date, fallback_date.value)
                end_date == unwrap_or(cfg.end_date, fallback_date.value)
                checkpoint == latest_checkpoint(cfg.checkpoint_path, tbl, cfg.exchange,
                                                cfg.exchange_id, cfg.symbol_id,
                                                cfg.ts_local_us)
                io == latest_checkpoint_io(cfg.checkpoint_path, tbl, cfg.ts_local_us)
            IN IF start_date > end_date
               THEN Failed("snapshot_at: start_date is after end_date", << >>)
               ELSE IF ~checkpoint.ok THEN Failed(checkpoint.err, io)
               ELSE LET c == checkpoint.value
                    IN [pc |-> "loop",
                        io |-> Append(io, "open_table(updates_path)"),
                        start_date |-> start_date,
                        end_date |-> end_date,
                        checkpoint |-> c,
                        book |-> IF IsSome(c)
                                 THEN seed_from_levels(OrderBookDefault,
                                                       Unwrap(c).bids, Unwrap(c).asks)
                                 ELSE OrderBookDefault,
                        min_pos |-> IF IsSome(c) THEN Some(CheckpointPos(Unwrap(c)))
                                    ELSE None,
                        snapshot_key |-> None,
                        applied |-> 0,
                        result |-> None]

\* the closure given to for_each_update, for a row the stream delivered
\* (ops.rs 111-117)
SnapshotAtApply(cfg, s, row) ==
    LET r == SnapshotResetApply(s.snapshot_key, s.book, row)
    IN [s EXCEPT !.snapshot_key = r.snapshot_key,
                 !.book = r.book,
                 !.applied = @ + 1]

\* one row of the scanned partitions: the filters of build_updates_df
\* (ops.rs 99-109), then the closure
SnapshotAtStep(cfg, s, row) ==
    IF ~ScanPredicate(row, cfg.ts_local_us, s.min_pos) THEN s
    ELSE SnapshotAtApply(cfg, s, row)

\* the Snapshot that is returned (ops.rs 119-126)
SnapshotAtFinal(cfg, s) ==
    LET lv == book_levels(s.book)
    IN [s EXCEPT !.pc = "done",
                 !.result = Some([exchange_id |-> cfg.exchange_id,
                                  symbol_id |-> cfg.symbol_id,
                                  ts_local_us |-> cfg.ts_local_us,
                                  bids |-> lv[1],
                                  asks |-> lv[2]])]

(***************************************************************************)
(* ops.rs, io.rs: the row loops on stored rows.  The filters of the scan   *)
(* run inside the query; a row the stream delivers is decoded first and a  *)
(* decoding error is returned with `?`.                                    *)
(***************************************************************************)
\* replay_between_delta (ops.rs 250-305)
BetweenDecode(cfg, s, cols) ==
    IF ~ScanPredicate(cols, cfg.end_ts_local_us, s.min_pos) THEN s
    ELSE LET update == update_from_columns(cols)
         IN IF ~update.ok THEN Failed(update.err, s.io)
            ELSE BetweenApply(cfg, s, update.value)

\* snapshot_at_delta through for_each_update (io.rs 404-406)
SnapshotAtDecode(cfg, s, cols) ==
    IF ~ScanPredicate(cols, cfg.ts_local_us, s.min_pos) THEN s
    ELSE LET update == update_from_columns(cols)
         IN IF ~update.ok THEN Failed(update.err, s.io)
            ELSE SnapshotAtApply(cfg, s, update.value)

\* build_state_checkpoints_delta (ops.rs 438-504): the row is decoded before
\* the window test
BuildDecode(cfg, s, cols) ==
    LET update == checkpoint_update_from_columns(cols)
    IN IF ~update.ok THEN [s EXCEPT !.pc = "error", !.error = Some(update.err)]
       ELSE BuildStep(cfg, s, update.value)

(***************************************************************************)
(* The callback API driven by a stream that is produced one update at a    *)
(* time.  Row k of a stream carries file_line_number k, so a reported      *)
(* position names one update of the stream.                                *)
(***************************************************************************)
\* streams for the book and snapshot-group behaviour: a snapshot row of either
\* file sets a level, an incremental row sets or deletes one
BookUpdates ==
    {L2Update(ts, 1, 1, TRUE, side, 100, 5, fid) :
        ts \in Tss, side \in Sides, fid \in FileIds}
    \cup
    {L2Update(ts, 1, 1, FALSE, side, 100, size, 10) :
        ts \in Tss, side \in Sides, size \in {0, 7}}

Numbered(u, line) == [u EXCEPT !.file_line_number = line]

\* the rows of U as the next row of the stream
NextRow(U) == {Numbered(u, Len(consumed) + 1) : u \in U}

BookConfigs ==
    {[api |-> "replay",
      checkpoint_every_us |-> None, checkpoint_every_updates |-> Some(1),
      validate_monotonic |-> v] : v \in BOOLEAN}

NoTable == None

ReplayStart(cfgs) ==
    /\ config \in cfgs
    /\ st = ReplayInit
    /\ consumed = << >>
    /\ table = NoTable

\* the iterator yields one more update
ReplayNext(U, max_len) ==
    /\ config.api = "replay"
    /\ st.pc = "loop"
    /\ Len(consumed) < max_len
    /\ \E u \in U :
          /\ st' = ReplayStep(config, st, u)
          /\ consumed' = Append(consumed, u)
    /\ UNCHANGED <<config, table>>

\* the iterator is exhausted
ReplayEnd ==
    /\ config.api = "replay"
    /\ st.pc = "loop"
    /\ st' = ReplayFinal(config, st)
    /\ UNCHANGED <<config, consumed, table>>

InitReplay == ReplayStart(BookConfigs)
NextReplay == ReplayNext(NextRow(BookUpdates), MaxLen) \/ ReplayEnd
SpecReplay == InitReplay /\ [][NextReplay]_vars

\* streams for the cadence: one incremental row per choice of timestamp, in
\* any order; one cadence is set, the other is None
CadenceUpdates == {L2Update(ts, 1, 1, FALSE, 0, 100, 5, 10) : ts \in 0..MaxTs}

CadenceConfigs ==
    {[api |-> "replay", checkpoint_every_us |-> None,
      checkpoint_every_updates |-> Some(k), validate_monotonic |-> FALSE] : k \in 1..MaxEvery}
    \cup
    {[api |-> "replay", checkpoint_every_us |-> Some(d),
      checkpoint_every_updates |-> None, validate_monotonic |-> FALSE] : d \in 1..MaxEvery}

InitCadence == ReplayStart(CadenceConfigs)
NextCadence == ReplayNext(NextRow(CadenceUpdates), CadenceLen) \/ ReplayEnd
SpecCadence == InitCadence /\ [][NextCadence]_vars

\* every pair of cadences replay accepts: unset, zero, negative and positive
VoteEveryUs == {None, Some(-1), Some(0), Some(2)}
VoteEveryUpdates == {None} \cup {Some(k) : k \in 0..MaxEvery}

VoteConfigs ==
    {[api |-> "replay", checkpoint_every_us |-> d, checkpoint_every_updates |-> k,
      validate_monotonic |-> FALSE] : d \in VoteEveryUs, k \in VoteEveryUpdates}

InitVote == ReplayStart(VoteConfigs)
NextVote == ReplayNext(NextRow(CadenceUpdates), MaxLen) \/ ReplayEnd
SpecVote == InitVote /\ [][NextVote]_vars

(***************************************************************************)
(* The table APIs driven by a scan that yields one row at a time.  table   *)
(* is the checkpoint table: read by replay_between_delta and               *)
(* snapshot_at_delta, written by build_state_checkpoints_delta.            *)
(***************************************************************************)
WithMeta(u, exchange_id, symbol_id) ==
    [ts_local_us |-> u.ts_local_us, ingest_seq |-> u.ingest_seq,
     file_line_number |-> u.file_line_number, is_snapshot |-> u.is_snapshot,
     side |-> u.side, price_int |-> u.price_int, size_int |-> u.size_int,
     file_id |-> u.file_id, exchange_id |-> exchange_id, symbol_id |-> symbol_id]

\* a checkpoint of exchange x, symbol 7 on day 0, taken at the position
\* (ts 1, seq 1, file 10, line 1)
Checkpoint0 ==
    [exchange |-> <<"x">>, exchange_id |-> 1, symbol_id |-> 7, date |-> 0,
     ts_local_us |-> 1, bids |-> <<<<101, 9>>>>, asks |-> << >>,
     file_id |-> 10, ingest_seq |-> 1, file_line_number |-> 1,
     checkpoint_kind |-> "periodic"]

Tables == {NoTable, Some(<<Checkpoint0>>)}

BetweenConfig(path, start_ts, end_ts, every_us, every_updates, dense) ==
    [api |-> "replay_between_delta",
     checkpoint_path |-> path,
     exchange |-> Some(<<"x">>), exchange_id |-> 1, symbol_id |-> 7,
     start_ts_local_us |-> start_ts, end_ts_local_us |-> end_ts,
     every_us |-> every_us, every_updates |-> every_updates,
     dense_price_min |-> dense.min,
     dense_price_max |-> dense.max,
     dense_tick_size |-> dense.tick]

NoDense == [min |-> None, max |-> None, tick |-> None]

BuildConfig(exchange, start_date, end_date, validate_monotonic, assume_sorted) ==
    [api |-> "build_state_checkpoints_delta",
     exchange |-> exchange, exchange_id |-> Some(1), symbol_id |-> 7,
     start_date |-> start_date, end_date |-> end_date,
     checkpoint_every_us |-> None, checkpoint_every_updates |-> Some(1),
     validate_monotonic |-> validate_monotonic, assume_sorted |-> assume_sorted]

PathOf(tbl) == IF IsSome(tbl) THEN Some("checkpoints") ELSE None

\* a sparse and a dense book side by side, and a replay_between_delta run on
\* each storage fed with the rows given to apply_update
BookBetweenConfig(cfg, dense) ==
    BetweenConfig(None, 1, MaxLen, None, Some(1),
                  IF dense
                  THEN [min |-> Some(cfg.min_price_int), max |-> Some(cfg.max_price_int),
                        tick |-> Some(cfg.tick_size_int)]
                  ELSE NoDense)

BookInit(cfg) ==
    [pc |-> "ops",
     sparse |-> OrderBookDefault,
     dense |-> new_dense(cfg.min_price_int, cfg.max_price_int, cfg.tick_size_int).value,
     between_sparse |-> BetweenInit(BookBetweenConfig(cfg, FALSE), NoTable),
     between_dense |-> BetweenInit(BookBetweenConfig(cfg, TRUE), NoTable)]

InitOf(cfg, tbl) ==
    CASE cfg.api = "replay" -> ReplayInit
      [] cfg.api = "replay_between_delta" -> BetweenInit(cfg, tbl)
      [] cfg.api = "build_state_checkpoints_delta" ->
            BuildInit(cfg) @@ [run |-> 1, fed |-> 0, start_table |-> tbl]
      [] cfg.api = "snapshot_at_delta" -> SnapshotAtInit(cfg, tbl)
      [] cfg.api = "book" -> BookInit(cfg)

\* a call starts on one of the given setups (a configuration and a table)
Start(setups) ==
    \E setup \in setups :
        /\ config = setup.config
        /\ table = setup.table
        /\ st = InitOf(setup.config, setup.table)
        /\ consumed = << >>

BetweenNext(U, max_len) ==
    /\ config.api = "replay_between_delta"
    /\ st.pc = "loop"
    /\ Len(consumed) < max_len
    /\ \E u \in U :
          /\ st' = BetweenStep(config, st, u)
          /\ consumed' = Append(consumed, u)
    /\ UNCHANGED <<config, table>>

BetweenEnd ==
    /\ config.api = "replay_between_delta"
    /\ st.pc = "loop"
    /\ st' = BetweenFinal(config, st)
    /\ UNCHANGED <<config, consumed, table>>

SnapshotAtNext(U, max_len) ==
    /\ config.api = "snapshot_at_delta"
    /\ st.pc = "loop"
    /\ Len(consumed) < max_len
    /\ \E u \in U :
          /\ st' = SnapshotAtStep(config, st, u)
          /\ consumed' = Append(consumed, u)
    /\ UNCHANGED <<config, table>>

SnapshotAtEnd ==
    /\ config.api = "snapshot_at_delta"
    /\ st.pc = "loop"
    /\ st' = SnapshotAtFinal(config, st)
    /\ UNCHANGED <<config, consumed, table>>

\* the sort build_checkpoint_updates_df adds unless assume_sorted: the next
\* row of a sorted scan is not below the previous one
ScanOrder(cfg, seq, u) ==
    IF cfg.assume_sorted \/ Len(seq) = 0 THEN TRUE
    ELSE ~TupleLess(sort_key(u), sort_key(seq[Len(seq)]))

\* the scan yields one more row; a second run reads the rows of the first
BuildNext(U, max_len) ==
    /\ config.api = "build_state_checkpoints_delta"
    /\ st.pc = "loop"
    /\ IF st.run = 1
       THEN /\ Len(consumed) < max_len
            /\ \E u \in U :
                  /\ ScanOrder(config, consumed, u)
                  /\ st' = [BuildStep(config, st, u) EXCEPT !.fed = @ + 1]
                  /\ consumed' = Append(consumed, u)
       ELSE /\ st.fed < Len(consumed)
            /\ st' = [BuildStep(config, st, consumed[st.fed + 1]) EXCEPT !.fed = @ + 1]
            /\ UNCHANGED consumed
    /\ UNCHANGED <<config, table>>

BuildEnd ==
    /\ config.api = "build_state_checkpoints_delta"
    /\ st.pc = "loop"
    /\ st.run = 1 \/ st.fed = Len(consumed)
    /\ st' = BuildFinal(config, st, table)
    /\ UNCHANGED <<config, consumed, table>>

\* the partitions are visited in the order of a HashSet: any order
BuildDelete ==
    /\ config.api = "build_state_checkpoints_delta"
    /\ st.pc = "delete"
    /\ \E partition \in st.partitions :
          LET next == BuildDeleteStep(st, table, partition)
          IN st' = next.st /\ table' = next.table
    /\ UNCHANGED <<config, consumed>>

BuildAppend ==
    /\ config.api = "build_state_checkpoints_delta"
    /\ st.pc = "append"
    /\ LET next == BuildAppendStep(st, table)
       IN st' = next.st /\ table' = next.table
    /\ UNCHANGED <<config, consumed>>

\* the three emitting APIs, a checkpoint after every timestamp group
EmitSetups ==
    {[config |-> [api |-> "replay", checkpoint_every_us |-> None,
                  checkpoint_every_updates |-> Some(1), validate_monotonic |-> FALSE],
      table |-> NoTable]}
    \cup
    {[config |-> BetweenConfig(PathOf(t), start_ts, 2, None, Some(1), NoDense), table |-> t] :
        start_ts \in Tss, t \in Tables}
    \cup
    {[config |-> BuildConfig(Some(<<"x">>), 0, 0, FALSE, TRUE), table |-> t] : t \in Tables}

BuildUpdates == {WithMeta(u, 1, 7) : u \in BookUpdates}

InitEmit == Start(EmitSetups)
NextEmit ==
    \/ ReplayNext(NextRow(BookUpdates), MaxLen) \/ ReplayEnd
    \/ BetweenNext(NextRow(BookUpdates), MaxLen) \/ BetweenEnd
    \/ BuildNext(NextRow(BuildUpdates), MaxLen) \/ BuildEnd \/ BuildDelete \/ BuildAppend
SpecEmit == InitEmit /\ [][NextEmit]_vars

\* streams for the monotonic guard: every combination of two values of each
\* key component, in any order, and one row of a later day
OrderUpdates ==
    {WithMeta(L2Update(ts, seq, line, FALSE, 0, 100, 5, fid), 1, 7) :
        ts \in Tss, seq \in {1, 2}, line \in {1, 2}, fid \in FileIds}
    \cup {WithMeta(L2Update(2 * DayLen, 1, 1, FALSE, 0, 100, 5, 10), 1, 7)}

OrderSetups ==
    {[config |-> [api |-> "replay", checkpoint_every_us |-> None,
                  checkpoint_every_updates |-> Some(1), validate_monotonic |-> v],
      table |-> NoTable] : v \in BOOLEAN}
    \cup
    {[config |-> BuildConfig(Some(<<"x">>), 0, 0, v, TRUE), table |-> NoTable] :
        v \in BOOLEAN}
    \cup
    {[config |-> BuildConfig(Some(<<"x">>), 0, 0, TRUE, FALSE), table |-> NoTable]}

InitOrder == Start(OrderSetups)
NextOrder ==
    \/ ReplayNext(OrderUpdates, MaxLen) \/ ReplayEnd
    \/ BuildNext(OrderUpdates, MaxLen) \/ BuildEnd \/ BuildAppend
SpecOrder == InitOrder /\ [][NextOrder]_vars

\* checkpoint tables for the resume: Checkpoint0, a later checkpoint whose
\* ingest_seq is above that of every row, and one of another symbol
Checkpoint1 ==
    [exchange |-> <<"x">>, exchange_id |-> 1, symbol_id |-> 7, date |-> 0,
     ts_local_us |-> 2, bids |-> << >>, asks |-> <<<<101, 4>>>>,
     file_id |-> 10, ingest_seq |-> 2, file_line_number |-> 0,
     checkpoint_kind |-> "periodic"]

Checkpoint2 == [Checkpoint1 EXCEPT !.symbol_id = 8]

SnapshotAtTables ==
    {NoTable, Some(<<Checkpoint0>>), Some(<<Checkpoint0, Checkpoint1>>),
     Some(<<Checkpoint1, Checkpoint0>>), Some(<<Checkpoint2, Checkpoint0>>)}

SnapshotAtSetups ==
    {[config |-> [api |-> "snapshot_at_delta", checkpoint_path |-> PathOf(t),
                  exchange |-> Some(<<"x">>), exchange_id |-> 1, symbol_id |-> 7,
                  ts_local_us |-> ts, start_date |-> None, end_date |-> None],
      table |-> t] : ts \in Tss, t \in SnapshotAtTables}

\* rows of the scanned partitions, in any order
SnapshotAtUpdates ==
    {L2Update(ts, 1, 1, TRUE, 0, 100, 5, fid) : ts \in Tss, fid \in FileIds}
    \cup {L2Update(ts, 1, 1, FALSE, 0, 100, size, 10) : ts \in Tss, size \in {0, 7}}
    \cup {L2Update(ts, 1, 1, FALSE, 1, 100, 7, 11) : ts \in Tss}

InitSnapshotAt == Start(SnapshotAtSetups)
NextSnapshotAt == SnapshotAtNext(NextRow(SnapshotAtUpdates), MaxLen) \/ SnapshotAtEnd
SpecSnapshotAt == InitSnapshotAt /\ [][NextSnapshotAt]_vars

\* the two calls that resume from a checkpoint, on the same rows
ResumeSetups ==
    SnapshotAtSetups
    \cup
    {[config |-> BetweenConfig(PathOf(t), start_ts, 2, None, Some(1), NoDense), table |-> t] :
        start_ts \in Tss, t \in Tables}

InitResume == Start(ResumeSetups)
NextResume ==
    \/ SnapshotAtNext(NextRow(SnapshotAtUpdates), MaxLen) \/ SnapshotAtEnd
    \/ BetweenNext(NextRow(SnapshotAtUpdates), MaxLen) \/ BetweenEnd
SpecResume == InitResume /\ [][NextResume]_vars

\* replay_between_delta on rows before and after its start: a start at 1 or
\* 2, either cadence or both, with and without a checkpoint to resume from
WindowSetups ==
    {[config |-> BetweenConfig(PathOf(t), start_ts, MaxTs, every_us, every_updates, NoDense),
      table |-> t] :
        start_ts \in Tss, t \in Tables,
        every_us \in {None, Some(1)}, every_updates \in {None, Some(1), Some(2)}}

WindowUpdates ==
    {L2Update(ts, 1, 1, FALSE, side, 100 + ts, 5, 10) : ts \in 0..MaxTs, side \in Sides}

InitWindow == Start(WindowSetups)
NextWindow == BetweenNext(NextRow(WindowUpdates), MaxLen) \/ BetweenEnd
SpecWindow == InitWindow /\ [][NextWindow]_vars

\* the three emitting APIs with a checkpoint after every update or every
\* second one, so that the last group of a stream is due or not
FlushSetups ==
    {[config |-> [api |-> "replay", checkpoint_every_us |-> None,
                  checkpoint_every_updates |-> Some(k), validate_monotonic |-> FALSE],
      table |-> NoTable] : k \in {1, 2}}
    \cup
    {[config |-> BetweenConfig(None, start_ts, 2, None, Some(k), NoDense),
      table |-> NoTable] : start_ts \in Tss, k \in {1, 2}}
    \cup
    {[config |-> [BuildConfig(Some(<<"x">>), 0, 0, FALSE, TRUE) EXCEPT
                     !.checkpoint_every_updates = Some(k)],
      table |-> t] : k \in {1, 2}, t \in Tables}

InitFlush == Start(FlushSetups)
NextFlush ==
    \/ ReplayNext(NextRow(BookUpdates), MaxLen) \/ ReplayEnd
    \/ BetweenNext(NextRow(BookUpdates), MaxLen) \/ BetweenEnd
    \/ BuildNext(NextRow(BuildUpdates), MaxLen) \/ BuildEnd \/ BuildDelete \/ BuildAppend
SpecFlush == InitFlush /\ [][NextFlush]_vars

\* operations on the two books: reset, and apply_update with a price of the
\* dense range, aligned to the tick; two rows share a timestamp
BookConfigsDense ==
    {[api |-> "book", min_price_int |-> 100, max_price_int |-> 100 + 2 * tick,
      tick_size_int |-> tick] : tick \in {1, 2}}

BookPrices(cfg) ==
    {cfg.min_price_int + i * cfg.tick_size_int :
        i \in 0..((cfg.max_price_int - cfg.min_price_int) \div cfg.tick_size_int)}

BookOps(cfg) ==
    LET ts == (Len(consumed) + 2) \div 2
        line == Len(consumed) + 1
    IN {L2Update(ts, 1, line, FALSE, side, price, size, 10) :
            side \in Sides, price \in BookPrices(cfg), size \in {0, 5}}
       \cup {L2Update(ts, 1, line, TRUE, side, price, 7, 10) :
            side \in Sides, price \in BookPrices(cfg)}

ResetOp == [op |-> "reset"]
ApplyOp(u) == [op |-> "apply_update", update |-> u]

BookReset ==
    /\ config.api = "book"
    /\ Len(consumed) < MaxLen
    /\ st' = [st EXCEPT !.sparse = reset(@), !.dense = reset(@)]
    /\ consumed' = Append(consumed, ResetOp)
    /\ UNCHANGED <<config, table>>

BookApply ==
    /\ config.api = "book"
    /\ Len(consumed) < MaxLen
    /\ \E u \in BookOps(config) :
          /\ st' = [st EXCEPT
                      !.sparse = apply_update(@, u),
                      !.dense = apply_update(@, u),
                      !.between_sparse = BetweenStep(BookBetweenConfig(config, FALSE), @, u),
                      !.between_dense = BetweenStep(BookBetweenConfig(config, TRUE), @, u)]
          /\ consumed' = Append(consumed, ApplyOp(u))
    /\ UNCHANGED <<config, table>>

InitBook == Start({[config |-> c, table |-> NoTable] : c \in BookConfigsDense})
NextBook == BookReset \/ BookApply
SpecBook == InitBook /\ [][NextBook]_vars

\* operations on the two books with any argument: prices outside the dense
\* range, off the tick and not positive, sizes of either sign, a side that is
\* neither bid nor ask, and seeding from level lists
AnyConfigs ==
    {[api |-> "book", min_price_int |-> 100, max_price_int |-> 104, tick_size_int |-> 2]}

AnyLevels == {<<100, 5>>, <<100, 0>>, <<100, -1>>, <<101, 5>>, <<106, 5>>, <<0, 5>>}

AnyUpdates ==
    {L2Update(1, 1, Len(consumed) + 1, FALSE, side, l[1], l[2], 10) :
        side \in Sides, l \in AnyLevels}
    \cup {L2Update(1, 1, Len(consumed) + 1, FALSE, 2, 100, 5, 10)}

AnySeeds ==
    {[bids |-> <<<<100, 0>>>>, asks |-> << >>],
     [bids |-> <<<<102, 5>>>>, asks |-> <<<<104, 7>>, <<102, 3>>>>],
     [bids |-> <<<<99, 5>>>>, asks |-> <<<<101, 5>>>>],
     [bids |-> <<<<100, 5>>, <<100, 7>>>>, asks |-> <<<<102, 3>>, <<102, 0>>>>]}

SeedOp(bids, asks) == [op |-> "seed_from_levels", bids |-> bids, asks |-> asks]

BookApplyAny ==
    /\ config.api = "book"
    /\ Len(consumed) < MaxLen
    /\ \E u \in AnyUpdates :
          /\ st' = [st EXCEPT !.sparse = apply_update(@, u),
                               !.dense = apply_update(@, u)]
          /\ consumed' = Append(consumed, ApplyOp(u))
    /\ UNCHANGED <<config, table>>

BookSeed ==
    /\ config.api = "book"
    /\ Len(consumed) < MaxLen
    /\ \E seed \in AnySeeds :
          /\ st' = [st EXCEPT !.sparse = seed_from_levels(@, seed.bids, seed.asks),
                               !.dense = seed_from_levels(@, seed.bids, seed.asks)]
          /\ consumed' = Append(consumed, SeedOp(seed.bids, seed.asks))
    /\ UNCHANGED <<config, table>>

InitBookAny == Start({[config |-> c, table |-> NoTable] : c \in AnyConfigs})
NextBookAny == BookReset \/ BookApplyAny \/ BookSeed
SpecBookAny == InitBookAny /\ [][NextBookAny]_vars

\* updates of any side given to the two books and to a replay_between_delta
\* run on each storage, in a build with and without debug assertions
SideConfigs ==
    {[api |-> "book", min_price_int |-> 100, max_price_int |-> 104, tick_size_int |-> 2,
      debug_assertions |-> b] : b \in BOOLEAN}

SideUpdates ==
    {L2Update((Len(consumed) + 2) \div 2, 1, Len(consumed) + 1, FALSE, side, price, size, 10) :
        side \in {0, 1, 2, 255}, price \in {100, 101}, size \in {0, 5}}

BookApplySide ==
    /\ config.api = "book"
    /\ st.pc = "ops"
    /\ Len(consumed) < MaxLen
    /\ \E u \in SideUpdates :
          /\ st' = IF debug_assert_invalid_side(config.debug_assertions, u)
                   THEN [st EXCEPT !.pc = "panic"]
                   ELSE [st EXCEPT
                           !.sparse = apply_update(@, u),
                           !.dense = apply_update(@, u),
                           !.between_sparse =
                               BetweenStep(BookBetweenConfig(config, FALSE), @, u),
                           !.between_dense =
                               BetweenStep(BookBetweenConfig(config, TRUE), @, u)]
          /\ consumed' = Append(consumed, ApplyOp(u))
    /\ UNCHANGED <<config, table>>

InitSide == Start({[config |-> c, table |-> NoTable] : c \in SideConfigs})
NextSide == BookApplySide
SpecSide == InitSide /\ [][NextSide]_vars

\* the public calls over their configurations: every way of setting and not
\* setting the cadences, the exchange and the dates, and a dense range that
\* is only partly given
EveryUs == {None, Some(-1), Some(0), Some(2)}
EveryUpdates == {None, Some(0), Some(1)}
Dates == {0, 1}
PartDense == [min |-> Some(100), max |-> None, tick |-> None]

ConfigSetups ==
    {[config |-> BetweenConfig(PathOf(t), 1, 2, us, n, NoDense), table |-> t] :
        us \in EveryUs, n \in EveryUpdates, t \in Tables}
    \cup
    {[config |-> BetweenConfig(PathOf(t), 1, 2, None, Some(1), PartDense), table |-> t] :
        t \in Tables}
    \cup
    {[config |-> [BuildConfig(e, d[1], d[2], FALSE, TRUE) EXCEPT
                     !.checkpoint_every_us = c[1],
                     !.checkpoint_every_updates = c[2]],
      table |-> t] :
        e \in {None, Some(<<"x">>)}, d \in Dates \X Dates,
        c \in {<<None, None>>, <<Some(0), Some(0)>>, <<Some(-1), None>>, <<None, Some(1)>>},
        t \in Tables}
    \cup
    {[config |-> [api |-> "snapshot_at_delta", checkpoint_path |-> PathOf(t),
                  exchange |-> Some(<<"x">>), exchange_id |-> 1, symbol_id |-> 7,
                  ts_local_us |-> ts, start_date |-> d[1], end_date |-> d[2]],
      table |-> t] :
        ts \in {1, DayLen + 1}, d \in ({None} \cup {Some(x) : x \in Dates})
                                        \X ({None} \cup {Some(x) : x \in Dates}),
        t \in Tables}

ConfigUpdates ==
    {WithMeta(L2Update(ts, 1, 1, FALSE, 0, 100, 5, 10), 1, 7) : ts \in {1, DayLen + 1}}

InitConfig == Start(ConfigSetups)
NextConfig ==
    \/ BetweenNext(NextRow(ConfigUpdates), MaxLen) \/ BetweenEnd
    \/ BuildNext(NextRow(ConfigUpdates), MaxLen) \/ BuildEnd \/ BuildDelete \/ BuildAppend
    \/ SnapshotAtNext(NextRow(ConfigUpdates), MaxLen) \/ SnapshotAtEnd
SpecConfig == InitConfig /\ [][NextConfig]_vars

\* the same call once more, on the rows the first call read; start_table is
\* the table the call found
BuildRerun ==
    /\ config.api = "build_state_checkpoints_delta"
    /\ st.pc = "done"
    /\ st.run = 1
    /\ st' = BuildInit(config) @@ [run |-> 2, fed |-> 0, start_table |-> table]
    /\ UNCHANGED <<config, consumed, table>>

\* exchange names: plain, with a double quote, with a single quote
Exchanges == {<<"x">>, <<"x", "\"">>, <<"x", "'">>}

OldRow(exchange, date) ==
    [Checkpoint0 EXCEPT !.exchange = exchange, !.date = date, !.ts_local_us = date * DayLen]

\* the table: absent, or with a row of each of the two partitions the window
\* covers, a row of a later date and a row of another exchange
OldTables(exchange) ==
    {NoTable, Some(<<OldRow(exchange, 0), OldRow(exchange, 2), OldRow(<<"y">>, 1)>>)}

RebuildSetups ==
    UNION {{[config |-> BuildConfig(Some(e), 0, 1, FALSE, TRUE), table |-> t] :
                t \in OldTables(e)} : e \in Exchanges}

\* rows of day 0, of day 1 and of day 2, which is outside the window
RebuildUpdates ==
    {WithMeta(L2Update(day * DayLen + 1, 1, 1, FALSE, side, 100, 5, 10), 1, 7) :
        day \in 0..2, side \in Sides}

InitBuild == Start(RebuildSetups)
NextBuild ==
    \/ BuildNext(NextRow(RebuildUpdates), MaxLen) \/ BuildEnd
    \/ BuildDelete \/ BuildAppend \/ BuildRerun
SpecBuild == InitBuild /\ [][NextBuild]_vars

\* the rows a build writes: the scan is filtered on exchange and symbol_id,
\* and with no exchange_id argument its rows carry any exchange_id
RowsUpdates ==
    {WithMeta(L2Update(ts, 1, 1, FALSE, 0, 100, 5, 8 + 2 * id), id, 7) :
        ts \in {1, 2, DayLen + 1}, id \in {1, 2}}

RowsSetups ==
    UNION {{[config |-> [BuildConfig(Some(e), 0, 1, FALSE, TRUE) EXCEPT
                            !.exchange_id = None,
                            !.checkpoint_every_updates = Some(k)],
             table |-> t] : k \in {1, 2}, t \in OldTables(e)} : e \in {<<"x">>, <<"y">>}}

InitRows == Start(RowsSetups)
NextRows ==
    BuildNext(NextRow(RowsUpdates), MaxLen) \/ BuildEnd \/ BuildDelete \/ BuildAppend
SpecRows == InitRows /\ [][NextRows]_vars

\* stored rows for the decoding of the side column: a bid or an ask in
\* either type, a negative value, and a column of another type
SideCells ==
    {[type |-> "UInt8", value |-> v] : v \in {0, 1}}
    \cup {[type |-> "Int8", value |-> v] : v \in {-1, 0, 1}}
    \cup {[type |-> "Int16", value |-> 0]}

\* the cells at the ends of the two ranges as well
EdgeCells ==
    SideCells
    \cup {[type |-> "UInt8", value |-> 255]}
    \cup {[type |-> "Int8", value |-> v] : v \in {-128, 127}}

Stored(u, cell) == [u EXCEPT !.side = cell.value] @@ [side_type |-> cell.type]

StoredUpdates ==
    {Stored(WithMeta(L2Update(ts, 1, 1, FALSE, 0, 100, 7, 10), 1, 7), cell) :
        ts \in Tss, cell \in SideCells}

DecodeSetups ==
    {[config |-> BetweenConfig(PathOf(t), 1, 2, None, Some(1), NoDense), table |-> t] :
        t \in Tables}
    \cup
    {[config |-> [api |-> "snapshot_at_delta", checkpoint_path |-> PathOf(t),
                  exchange |-> Some(<<"x">>), exchange_id |-> 1, symbol_id |-> 7,
                  ts_local_us |-> 2, start_date |-> None, end_date |-> None],
      table |-> t] : t \in Tables}
    \cup
    {[config |-> BuildConfig(Some(<<"x">>), 0, 0, FALSE, TRUE), table |-> t] : t \in Tables}

\* the stream delivers one more stored row to the loop of the running call
DecodeNext(U, max_len) ==
    /\ config.api \in {"replay_between_delta", "snapshot_at_delta",
                        "build_state_checkpoints_delta"}
    /\ st.pc = "loop"
    /\ Len(consumed) < max_len
    /\ \E cols \in U :
          /\ st' = CASE config.api = "replay_between_delta" ->
                            BetweenDecode(config, st, cols)
                      [] config.api = "snapshot_at_delta" ->
                            SnapshotAtDecode(config, st, cols)
                      [] config.api = "build_state_checkpoints_delta" ->
                            [BuildDecode(config, st, cols) EXCEPT !.fed = @ + 1]
          /\ consumed' = Append(consumed, cols)
    /\ UNCHANGED <<config, table>>

InitDecode == Start(DecodeSetups)
NextDecode ==
    \/ DecodeNext(NextRow(StoredUpdates), MaxLen)
    \/ BetweenEnd \/ SnapshotAtEnd \/ BuildEnd \/ BuildDelete \/ BuildAppend
SpecDecode == InitDecode /\ [][NextDecode]_vars

\* replay, replay_between_delta and build_state_checkpoints_delta side by
\* side on one stream of rows in any order, with the same cadence arguments:
\* unset, zero, negative and positive; no checkpoint table
TrioEveryUs == {None, Some(-1), Some(0), Some(2)}
TrioEveryUpdates == {None, Some(0), Some(2)}

TrioConfigs ==
    {[api |-> "trio", every_us |-> d, every_updates |-> k, start_ts_local_us |-> start_ts] :
        d \in TrioEveryUs, k \in TrioEveryUpdates, start_ts \in 0..1}

TrioReplayConfig(cfg) ==
    [api |-> "replay", checkpoint_every_us |-> cfg.every_us,
     checkpoint_every_updates |-> cfg.every_updates, validate_monotonic |-> FALSE]

TrioBetweenConfig(cfg) ==
    BetweenConfig(None, cfg.start_ts_local_us, MaxTs, cfg.every_us, cfg.every_updates, NoDense)

TrioBuildConfig(cfg) ==
    [BuildConfig(Some(<<"x">>), 0, 0, FALSE, TRUE) EXCEPT
        !.checkpoint_every_us = cfg.every_us,
        !.checkpoint_every_updates = cfg.every_updates]

\* an incremental row that sets or deletes the bid at 100, and a snapshot row
\* of either file
TrioUpdates ==
    {WithMeta(L2Update(ts, 1, 1, k[1], 0, 100, k[2], k[3]), 1, 7) :
        ts \in 0..2, k \in {<<FALSE, 5, 10>>, <<FALSE, 0, 10>>, <<TRUE, 7, 10>>, <<TRUE, 7, 11>>}}

TrioInit(cfg) ==
    [pc |-> "loop",
     replay |-> ReplayInit,
     between |-> BetweenInit(TrioBetweenConfig(cfg), NoTable),
     build |-> BuildInit(TrioBuildConfig(cfg))]

InitTrio ==
    /\ config \in TrioConfigs
    /\ st = TrioInit(config)
    /\ consumed = << >>
    /\ table = NoTable

\* the three streams deliver the same next row; a call that has returned an
\* error reads nothing
TrioNext ==
    /\ config.api = "trio"
    /\ st.pc = "loop"
    /\ Len(consumed) < MaxLen
    /\ \E u \in NextRow(TrioUpdates) :
          /\ st' = [st EXCEPT
                      !.replay = ReplayStep(TrioReplayConfig(config), @, u),
                      !.between = IF @.pc = "loop"
                                  THEN BetweenStep(TrioBetweenConfig(config), @, u) ELSE @,
                      !.build = IF @.pc = "loop"
                                THEN BuildStep(TrioBuildConfig(config), @, u) ELSE @]
          /\ consumed' = Append(consumed, u)
    /\ UNCHANGED <<config, table>>

\* the three streams end
TrioEnd ==
    /\ config.api = "trio"
    /\ st.pc = "loop"
    /\ st' = [st EXCEPT
                !.pc = "done",
                !.replay = ReplayFinal(TrioReplayConfig(config), @),
                !.between = IF @.pc = "loop"
                            THEN BetweenFinal(TrioBetweenConfig(config), @) ELSE @,
                !.build = IF @.pc = "loop"
                          THEN BuildFinal(TrioBuildConfig(config), @, NoTable) ELSE @]
    /\ UNCHANGED <<config, consumed, table>>

NextTrio == TrioNext \/ TrioEnd
SpecTrio == InitTrio /\ [][NextTrio]_vars

\* a build over days 0 and 1 whose cadence the scan may never reach, on an
\* absent table and on a table with rows of an earlier run
IdleCadences == {<<None, Some(1)>>, <<None, Some(2)>>, <<Some(2), None>>}

IdleSetups ==
    {[config |-> [BuildConfig(Some(<<"x">>), 0, 1, FALSE, TRUE) EXCEPT
                     !.checkpoint_every_us = c[1], !.checkpoint_every_updates = c[2]],
      table |-> t] : c \in IdleCadences, t \in OldTables(<<"x">>)}

InitIdle == Start(IdleSetups)
NextIdle ==
    \/ BuildNext(NextRow(RebuildUpdates), MaxLen) \/ BuildEnd
    \/ BuildDelete \/ BuildAppend
SpecIdle == InitIdle /\ [][NextIdle]_vars

\* a build over days -1 and 0 on stored rows that can fail it: a negative
\* side, a timestamp before the epoch inside a second, which has no civil
\* date, and rows in any order with and without validate_monotonic
AbortSetups ==
    {[config |-> BuildConfig(Some(<<"x">>), -1, 0, v, TRUE), table |-> t] :
        v \in BOOLEAN, t \in Tables}

AbortCells == {[type |-> "UInt8", value |-> 0], [type |-> "Int8", value |-> -1]}

AbortUpdates ==
    {Stored(WithMeta(L2Update(ts, 1, 1, FALSE, 0, 100, 7, 10), 1, 7), cell) :
        ts \in {-1, 1, 2}, cell \in AbortCells}

InitAbort == Start(AbortSetups)
NextAbort ==
    \/ DecodeNext(NextRow(AbortUpdates), MaxLen)
    \/ BuildEnd \/ BuildDelete \/ BuildAppend
SpecAbort == InitAbort /\ [][NextAbort]_vars

\* checkpoint tables for the lookup: rows of two days, two ingest sequences,
\* and one row each with another exchange, exchange_id, symbol_id, file and
\* line; a row names its position in its bid
MaxRows == 2         \* rows of such a table

LookupRow(exchange, exchange_id, symbol_id, ts, seq, fid, line) ==
    [exchange |-> exchange, exchange_id |-> exchange_id, symbol_id |-> symbol_id,
     date |-> ts \div DayLen, ts_local_us |-> ts,
     bids |-> <<<<100 * ts + 10 * seq + line, fid>>>>, asks |-> << >>,
     file_id |-> fid, ingest_seq |-> seq, file_line_number |-> line,
     checkpoint_kind |-> "periodic"]

LookupRows ==
    {LookupRow(<<"x">>, 1, 7, ts, seq, 10, 1) : ts \in {1, 2, DayLen + 1}, seq \in {1, 2}}
    \cup {LookupRow(<<"y">>, 1, 7, 2, 2, 10, 1), LookupRow(<<"x">>, 2, 7, 2, 2, 10, 1),
          LookupRow(<<"x">>, 1, 8, 2, 2, 10, 1), LookupRow(<<"x">>, 1, 7, 2, 1, 11, 1),
          LookupRow(<<"x">>, 1, 7, 2, 1, 10, 2)}

LookupTables ==
    {NoTable} \cup {Some(rows) : rows \in UNION {[1..n -> LookupRows] : n \in 0..MaxRows}}

LookupSetups ==
    {[config |-> [api |-> "latest_checkpoint", checkpoint_path |-> path,
                  exchange |-> exchange, exchange_id |-> 1, symbol_id |-> 7,
                  ts_local_us |-> ts],
      table |-> t] :
        path \in {None, Some("checkpoints")}, exchange \in {None, Some(<<"x">>)},
        ts \in {1, 2, DayLen + 1, DayLen + 2}, t \in LookupTables}

InitLookup ==
    \E setup \in LookupSetups :
        /\ config = setup.config
        /\ table = setup.table
        /\ st = [pc |-> "call", result |-> None]
        /\ consumed = << >>

\* the call is made
LookupCall ==
    /\ config.api = "latest_checkpoint"
    /\ st.pc = "call"
    /\ st' = [pc |-> "done",
              result |-> Some(latest_checkpoint(
                                 config.checkpoint_path, table,
                                 config.exchange, config.exchange_id, config.symbol_id,
                                 config.ts_local_us))]
    /\ UNCHANGED <<config, consumed, table>>

NextLookup == LookupCall
SpecLookup == InitLookup /\ [][NextLookup]_vars

\* the after-position filter on a scan: a position and rows that take two
\* values in each of the four components
PosRows ==
    {L2Update(ts, seq, line, FALSE, 0, 100, 5, fid) :
        ts \in Tss, seq \in {1, 2}, line \in {1, 2}, fid \in FileIds}

InitFilter ==
    /\ \E u \in PosRows : config = [api |-> "after_pos_expr", pos |-> StreamPos(u)]
    /\ st = [pc |-> "scan", passed |-> << >>]
    /\ consumed = << >>
    /\ table = NoTable

\* the scan meets one more row and keeps it if the filter accepts it
FilterRow ==
    /\ config.api = "after_pos_expr"
    /\ Len(consumed) < MaxLen
    /\ \E row \in PosRows :
          /\ st' = [st EXCEPT !.passed = IF after_pos_expr(config.pos, row)
                                          THEN Append(@, row) ELSE @]
          /\ consumed' = Append(consumed, row)
    /\ UNCHANGED <<config, table>>

NextFilter == FilterRow
SpecFilter == InitFilter /\ [][NextFilter]_vars

(***************************************************************************)
(* Snapshot groups of a stream: maximal runs of consecutive snapshot rows  *)
(* that share (ts_local_us, file_id).                                      *)
(***************************************************************************)
SameRun(u, v) ==
    u.is_snapshot /\ v.is_snapshot /\ snapshot_group_key(u) = snapshot_group_key(v)

RunStart(seq, k) ==
    CHOOSE j \in 1..k :
        /\ \A i \in j..k : SameRun(seq[i], seq[k])
        /\ (j = 1 \/ ~SameRun(seq[j - 1], seq[k]))

RunEnd(seq, k) ==
    CHOOSE j \in k..Len(seq) :
        /\ \A i \in k..j : SameRun(seq[i], seq[k])
        /\ (j = Len(seq) \/ ~SameRun(seq[j + 1], seq[k]))

\* the updates applied one after the other, with no reset
RECURSIVE ApplyAll(_, _)
ApplyAll(book, updates) ==
    IF updates = << >> THEN book
    ELSE ApplyAll(apply_update(book, Head(updates)), Tail(updates))

\* the update of the stream a reported position names
Named(pos) == pos.file_line_number

S1Updates ==
    <<L2Update(1, 1, 1, FALSE, 0, 100, 5, 10), L2Update(2, 2, 2, FALSE, 1, 101, 3, 10),
      L2Update(3, 3, 3, TRUE, 0, 99, 1, 10), L2Update(3, 4, 4, TRUE, 1, 102, 2, 10),
      L2Update(4, 5, 5, FALSE, 0, 100, 4, 10)>>

S2Updates ==
    <<L2Update(1, 1, 1, TRUE, 0, 100, 1, 10), L2Update(1, 2, 2, FALSE, 1, 101, 2, 10),
      L2Update(2, 3, 3, FALSE, 0, 99, 1, 10)>>

\* C2: replay invokes on_snapshot only with a snapshot row applied last, never
\* when the next row of the stream continues the same snapshot group, and no
\* two invocations report rows of the same group.
C2_SnapshotGroupOnce ==
    config.api = "replay" =>
        \A i \in DOMAIN st.on_snapshot :
            LET e == st.on_snapshot[i]
            IN /\ e.at >= 1
               /\ consumed[e.at].is_snapshot
               /\ (e.at < Len(consumed) => ~SameRun(consumed[e.at], consumed[e.at + 1]))
               /\ \A j \in DOMAIN st.on_snapshot :
                     j # i => RunStart(consumed, Named(st.on_snapshot[j].pos))
                              # RunStart(consumed, Named(e.pos))

\* a group of two rows has been reported, once, after the stream ended
C2_Witness ==
    /\ config.api = "replay"
    /\ st.pc = "done"
    /\ Len(st.on_snapshot) = 1
    /\ st.on_snapshot[1].at = 3
    /\ SameRun(consumed[2], consumed[3])

\* C3: the book given to on_snapshot holds exactly the rows of the reported
\* group applied to an empty book, the reported position is that of the last
\* row of the group, and S1 gives one call with bids {99:1}, asks {102:2}.
C3_SnapshotBook ==
    /\ config.api = "replay" =>
          \A i \in DOMAIN st.on_snapshot :
              LET e == st.on_snapshot[i]
                  first == RunStart(consumed, e.at)
              IN /\ e.book = ApplyAll(OrderBookDefault, SubSeq(consumed, first, e.at))
                 /\ e.pos = StreamPos(consumed[e.at])
    /\ LET r == replay(S1Updates, ReplayConfigDefault)
       IN /\ Len(r.on_snapshot) = 1
          /\ r.on_snapshot[1].book.bids = (99 :> 1)
          /\ r.on_snapshot[1].book.asks = (102 :> 2)
          /\ r.on_snapshot[1].pos = StreamPos(S1Updates[4])

\* a bid set before the group is gone from the book of the group's callback
C3_Witness ==
    /\ config.api = "replay"
    /\ Len(consumed) = 3
    /\ consumed[1].side = 0 /\ consumed[1].size_int # 0 /\ ~consumed[1].is_snapshot
    /\ consumed[2].side = 1 /\ SameRun(consumed[2], consumed[3])
    /\ Len(st.on_snapshot) = 1
    /\ st.on_snapshot[1].book.bids = EmptyMap
    /\ st.on_snapshot[1].book.asks = (100 :> 5)

\* a snapshot group that an incremental row follows within the same timestamp
FollowedInTs(seq, k) ==
    LET last == RunEnd(seq, k)
    IN /\ last < Len(seq)
       /\ ~seq[last + 1].is_snapshot
       /\ seq[last + 1].ts_local_us = seq[last].ts_local_us

\* C10: replay never invokes on_snapshot for a snapshot group that is followed
\* within the same ts_local_us by a non-snapshot update (S2: no invocation).
C10_NoSnapshotWhenFollowed ==
    /\ config.api = "replay" =>
          \A i \in DOMAIN st.on_snapshot :
              LET k == Named(st.on_snapshot[i].pos)
              IN consumed[k].is_snapshot /\ ~FollowedInTs(consumed, k)
    /\ replay(S2Updates, ReplayConfigDefault).on_snapshot = << >>

\* the stream ended after a followed group and a later timestamp, with no call
C10_Witness ==
    /\ config.api = "replay"
    /\ st.pc = "done"
    /\ Len(consumed) = 3
    /\ consumed[1].is_snapshot /\ FollowedInTs(consumed, 1)
    /\ consumed[3].ts_local_us # consumed[2].ts_local_us
    /\ ~consumed[3].is_snapshot
    /\ st.on_snapshot = << >>

(***************************************************************************)
(* Emission atomicity.                                                     *)
(***************************************************************************)
\* the rows of the scan that reach the loop body of the running call
Delivered ==
    CASE config.api = "replay_between_delta" ->
            SelectSeq(consumed, LAMBDA u :
                ScanPredicate(u, config.end_ts_local_us, st.min_pos))
      [] config.api = "build_state_checkpoints_delta" ->
            SelectSeq(SubSeq(consumed, 1, st.fed), LAMBDA u : in_window(st, u))
      [] OTHER -> consumed

Monotone(seq) ==
    \A i \in 1..(Len(seq) - 1) : ~TupleLess(current_key(seq[i + 1]), current_key(seq[i]))

\* the book the running call started from
StartBook ==
    IF config.api = "replay_between_delta" THEN BetweenInit(config, table).book
    ELSE OrderBookDefault

\* the updates applied one after the other through the snapshot-reset rule
RECURSIVE ApplyStreamFrom(_, _, _)
ApplyStreamFrom(snapshot_key, book, updates) ==
    IF updates = << >> THEN book
    ELSE LET r == SnapshotResetApply(snapshot_key, book, Head(updates))
         IN ApplyStreamFrom(r.snapshot_key, r.book, Tail(updates))

ApplyStream(book, updates) == ApplyStreamFrom(None, book, updates)

\* the book after every delivered update with ts_local_us <= ts, and no other
BookUpTo(ts) ==
    ApplyStream(StartBook, SelectSeq(Delivered, LAMBDA u : u.ts_local_us <= ts))

\* C1: on a stream in four-key order, the book of every on_checkpoint call of
\* replay and the levels of every row emitted by replay_between_delta and
\* build_state_checkpoints_delta at a timestamp ts are those of the start book
\* after exactly the updates with ts_local_us <= ts that reached the loop.
C1_EmissionAtomicity ==
    (st.pc \in {"loop", "done", "delete", "append"} /\ Monotone(Delivered)) =>
        IF config.api = "replay"
        THEN \A i \in DOMAIN st.on_checkpoint :
                st.on_checkpoint[i].book = BookUpTo(st.on_checkpoint[i].pos.ts_local_us)
        ELSE \A i \in DOMAIN st.rows :
                <<st.rows[i].bids, st.rows[i].asks>>
                    = levels(BookUpTo(st.rows[i].ts_local_us))

\* replay_between_delta, seeded from a checkpoint, emitted a row for a group of
\* two updates once a later timestamp arrived
C1_Witness ==
    /\ config.api = "replay_between_delta"
    /\ st.pc = "loop"
    /\ IsSome(st.min_pos)
    /\ Monotone(Delivered)
    /\ Len(Delivered) = 3
    /\ Delivered[1].ts_local_us = Delivered[2].ts_local_us
    /\ Delivered[2].ts_local_us < Delivered[3].ts_local_us
    /\ Len(st.rows) = 1
    /\ st.emitted_at = <<2>>
    /\ st.rows[1].asks # << >>

(***************************************************************************)
(* Cadence.                                                                *)
(***************************************************************************)
\* row i of the stream ends a timestamp group that has been evaluated: the
\* next row has another timestamp, or the iterator has been exhausted
GroupEnd(seq, i, done) ==
    IF i < Len(seq) THEN seq[i + 1].ts_local_us # seq[i].ts_local_us ELSE done

\* the rows at which on_checkpoint was invoked, in order
CheckpointsAt == [i \in DOMAIN st.on_checkpoint |-> st.on_checkpoint[i].at]

TsOf(r) == [i \in DOMAIN r.on_checkpoint |-> r.on_checkpoint[i].pos.ts_local_us]

OneRow(ts) == L2Update(ts, ts, ts, FALSE, 0, 100, 5, 10)

S3Updates == <<OneRow(1), OneRow(2), OneRow(3), OneRow(4), OneRow(5)>>
S4Updates == <<OneRow(0), OneRow(3), OneRow(10)>>

\* the group ends among rows i..Len(seq) at which a count cadence of k emits,
\* when since rows have been applied after the previous emission
RECURSIVE CountEmits(_, _, _, _, _)
CountEmits(seq, i, since, k, done) ==
    IF i > Len(seq) THEN << >>
    ELSE IF GroupEnd(seq, i, done) /\ since + 1 >= k
    THEN <<i>> \o CountEmits(seq, i + 1, 0, k, done)
    ELSE CountEmits(seq, i + 1, since + 1, k, done)

OnlyEveryUpdates ==
    /\ config.api = "replay"
    /\ IsNone(config.checkpoint_every_us)
    /\ IsSome(config.checkpoint_every_updates)
    /\ Unwrap(config.checkpoint_every_updates) > 0

OneUpdatePerTs(seq) ==
    \A i \in 1..(Len(seq) - 1) : seq[i + 1].ts_local_us # seq[i].ts_local_us

\* C4: with only every_updates = k > 0, replay invokes on_checkpoint at the end
\* of a timestamp group exactly when at least k updates were applied since the
\* previous invocation (or the start), counting from zero again after each;
\* with one update per timestamp these are the rows whose 1-based index is a
\* multiple of k; S3 (ts 1..5, k = 2) emits at ts 2 and 4.
C4_CountCadence ==
    /\ OnlyEveryUpdates =>
          LET k == Unwrap(config.checkpoint_every_updates)
              done == st.pc = "done"
          IN /\ CheckpointsAt = CountEmits(consumed, 1, 0, k, done)
             /\ \A i \in DOMAIN st.on_checkpoint :
                   st.on_checkpoint[i].pos = StreamPos(consumed[st.on_checkpoint[i].at])
             /\ OneUpdatePerTs(consumed) =>
                   \A i \in DOMAIN consumed :
                       (\E j \in DOMAIN CheckpointsAt : CheckpointsAt[j] = i)
                           <=> (i % k = 0 /\ GroupEnd(consumed, i, done))
    /\ TsOf(replay(S3Updates, [ReplayConfigDefault EXCEPT
                                   !.checkpoint_every_updates = Some(2)])) = <<2, 4>>

\* k = 2 and four rows at four timestamps: checkpoints after rows 2 and 4
C4_Witness ==
    /\ OnlyEveryUpdates
    /\ Unwrap(config.checkpoint_every_updates) = 2
    /\ st.pc = "done"
    /\ Len(consumed) = 4
    /\ OneUpdatePerTs(consumed)
    /\ CheckpointsAt = <<2, 4>>

\* the group ends among rows i..Len(seq) at which a time cadence of d emits,
\* when last is the last_emit_ts so far
RECURSIVE TimeEmits(_, _, _, _, _)
TimeEmits(seq, i, last, d, done) ==
    IF i > Len(seq) THEN << >>
    ELSE IF ~GroupEnd(seq, i, done) THEN TimeEmits(seq, i + 1, last, d, done)
    ELSE LET t == seq[i].ts_local_us
         IN IF IsNone(last) THEN TimeEmits(seq, i + 1, Some(t), d, done)
            ELSE IF t - Unwrap(last) >= d
            THEN <<i>> \o TimeEmits(seq, i + 1, Some(t), d, done)
            ELSE TimeEmits(seq, i + 1, last, d, done)

OnlyEveryUs ==
    /\ config.api = "replay"
    /\ IsSome(config.checkpoint_every_us)
    /\ Unwrap(config.checkpoint_every_us) > 0
    /\ IsNone(config.checkpoint_every_updates)

\* C5: with only every_us = d > 0, the first evaluated timestamp becomes
\* last_emit_ts without an emission; afterwards on_checkpoint is invoked at the
\* earliest evaluated timestamp t with t - last_emit_ts >= d, which becomes
\* last_emit_ts; two consecutive emissions are at least d apart; S4 (ts 0, 3,
\* 10, d = 5) emits at ts 10 only.
C5_TimeCadence ==
    /\ OnlyEveryUs =>
          LET d == Unwrap(config.checkpoint_every_us)
              done == st.pc = "done"
              first == CHOOSE i \in DOMAIN consumed :
                          GroupEnd(consumed, i, done)
                          /\ \A j \in 1..(i - 1) : ~GroupEnd(consumed, j, done)
              evaluated == \E i \in DOMAIN consumed : GroupEnd(consumed, i, done)
          IN /\ CheckpointsAt = TimeEmits(consumed, 1, None, d, done)
             /\ evaluated => \A j \in DOMAIN CheckpointsAt : CheckpointsAt[j] # first
             /\ \A j \in DOMAIN st.on_checkpoint :
                   st.on_checkpoint[j].pos = StreamPos(consumed[st.on_checkpoint[j].at])
             /\ \A j \in 1..(Len(st.on_checkpoint) - 1) :
                   st.on_checkpoint[j + 1].pos.ts_local_us
                       - st.on_checkpoint[j].pos.ts_local_us >= d
             /\ st.cadence.last_emit_ts =
                   (IF st.on_checkpoint # << >>
                    THEN Some(st.on_checkpoint[Len(st.on_checkpoint)].pos.ts_local_us)
                    ELSE IF evaluated THEN Some(consumed[first].ts_local_us)
                    ELSE None)
    /\ TsOf(replay(S4Updates, [ReplayConfigDefault EXCEPT
                                   !.checkpoint_every_us = Some(5)])) = <<10>>

\* d = 2 and the timestamps 0, 1, 2, 3: one checkpoint, at ts 2, and ts 3 is
\* too close to it
C5_Witness ==
    /\ OnlyEveryUs
    /\ Unwrap(config.checkpoint_every_us) = 2
    /\ st.pc = "done"
    /\ Len(consumed) = 4
    /\ \A i \in 1..4 : consumed[i].ts_local_us = i - 1
    /\ CheckpointsAt = <<3>>

(***************************************************************************)
(* The monotonic guard.                                                    *)
(***************************************************************************)
\* the four-key order written out: a is below b
KeyBelow(a, b) ==
    \/ a.ts_local_us < b.ts_local_us
    \/ a.ts_local_us = b.ts_local_us /\ a.ingest_seq < b.ingest_seq
    \/ a.ts_local_us = b.ts_local_us /\ a.ingest_seq = b.ingest_seq
       /\ a.file_id < b.file_id
    \/ a.ts_local_us = b.ts_local_us /\ a.ingest_seq = b.ingest_seq
       /\ a.file_id = b.file_id /\ a.file_line_number < b.file_line_number

\* the rows of seq that are below the row before them
Descents(seq) == {i \in 2..Len(seq) : KeyBelow(seq[i], seq[i - 1])}

S5Updates ==
    <<L2Update(2, 2, 2, FALSE, 0, 100, 1, 2), L2Update(1, 1, 1, FALSE, 0, 100, 1, 1)>>

\* C6: with validate_monotonic, replay and build_state_checkpoints_delta abort
\* at the first update of their input that is below the previous one in the
\* four-key order, naming both keys, after accepting every update before it
\* (equal keys included); without it no stream is rejected.  The input of
\* build_state_checkpoints_delta is the rows inside its date window.
C6_MonotonicGuard ==
    /\ (config.api \in {"replay", "build_state_checkpoints_delta"}
        /\ st.pc \in {"loop", "panic", "done", "append"}) =>
          LET rows == Delivered
              n == Len(rows)
          IN IF config.validate_monotonic
             THEN /\ st.pc = "panic" <=> Descents(rows) # {}
                  /\ st.pc = "panic" =>
                        /\ Descents(rows) = {n}
                        /\ st.panic = Some([prev |-> current_key(rows[n - 1]),
                                            current |-> current_key(rows[n])])
                        /\ st.applied = n - 1
                  /\ st.pc # "panic" => st.applied = n
             ELSE st.pc # "panic" /\ st.applied = n
    /\ replay(S5Updates, [ReplayConfigDefault EXCEPT !.validate_monotonic = TRUE]).panic
          = Some([prev |-> <<2, 2, 2, 2>>, current |-> <<1, 1, 1, 1>>])

\* build_state_checkpoints_delta accepted a row equal in key to the row before
\* it and aborted at the next one, which is below it in file_line_number only
C6_Witness ==
    /\ config.api = "build_state_checkpoints_delta"
    /\ config.validate_monotonic
    /\ st.pc = "panic"
    /\ Len(consumed) = 3
    /\ Len(Delivered) = 3
    /\ current_key(consumed[1]) = current_key(consumed[2])
    /\ consumed[3].file_line_number < consumed[2].file_line_number
    /\ consumed[3].ts_local_us = consumed[2].ts_local_us
    /\ consumed[3].ingest_seq = consumed[2].ingest_seq
    /\ consumed[3].file_id = consumed[2].file_id

(***************************************************************************)
(* Resume from a checkpoint.                                               *)
(***************************************************************************)
\* the book with exactly the levels of the checkpoint c
BookOf(c) ==
    [storage |-> "BTree",
     bids |-> [p \in {c.bids[i][1] : i \in DOMAIN c.bids} |->
                 (CHOOSE l \in {c.bids[i] : i \in DOMAIN c.bids} : l[1] = p)[2]],
     asks |-> [p \in {c.asks[i][1] : i \in DOMAIN c.asks} |->
                 (CHOOSE l \in {c.asks[i] : i \in DOMAIN c.asks} : l[1] = p)[2]]]

\* the rows strictly after the position of c, up to the target ts
RowsAfter(c, seq, ts) ==
    SelectSeq(seq, LAMBDA u : KeyBelow(c, u) /\ u.ts_local_us <= ts)

\* C7: snapshot_at_delta, started from the checkpoint C (C.ts <= T), returns the
\* levels of the book seeded from C's bids and asks after exactly the scanned
\* updates with StreamPos above C.pos and ts_local_us <= T, applied in stream
\* order through the snapshot-reset rule.
C7_ResumeCorrectness ==
    (config.api = "snapshot_at_delta" /\ st.pc = "done" /\ IsSome(st.checkpoint)) =>
        LET C == Unwrap(st.checkpoint)
            T == config.ts_local_us
            book == ApplyStream(BookOf(C), RowsAfter(C, consumed, T))
        IN /\ C.ts_local_us <= T
           /\ <<Unwrap(st.result).bids, Unwrap(st.result).asks>> = levels(book)
           /\ Unwrap(st.result).ts_local_us = T

\* resumed from Checkpoint0 with target 1: the row at the checkpoint position
\* and the row after the target are left out, the row between them is applied
C7_Witness ==
    /\ config.api = "snapshot_at_delta"
    /\ st.pc = "done"
    /\ config.ts_local_us = 1
    /\ st.checkpoint = Some(CheckpointPos(Checkpoint0)
                            @@ [bids |-> Checkpoint0.bids, asks |-> Checkpoint0.asks])
    /\ Len(consumed) = 3
    /\ StreamPos(consumed[1]) = CheckpointPos(Checkpoint0)
    /\ ~consumed[1].is_snapshot /\ consumed[1].size_int = 7
    /\ consumed[2].ts_local_us = 1 /\ consumed[2].side = 1
    /\ consumed[3].ts_local_us = 2
    /\ Unwrap(st.result).bids = <<<<101, 9>>>>
    /\ Unwrap(st.result).asks = <<<<100, 7>>>>

(***************************************************************************)
(* Dense and sparse storage.                                               *)
(***************************************************************************)
\* C8: after every reset and every apply_update with a price inside the dense
\* range and aligned to the tick, the dense and the sparse book agree on
\* levels(), bids_len(), asks_len(), bid_at and ask_at, and the rows emitted by
\* replay_between_delta on the same updates are the same under both storages.
C8_DenseSparseEquivalence ==
    config.api = "book" =>
        /\ levels(st.dense) = levels(st.sparse)
        /\ bids_len(st.dense) = bids_len(st.sparse)
        /\ asks_len(st.dense) = asks_len(st.sparse)
        /\ \A p \in (config.min_price_int - 1)..(config.max_price_int + 1) :
              /\ bid_at(st.dense, p) = bid_at(st.sparse, p)
              /\ ask_at(st.dense, p) = ask_at(st.sparse, p)
        /\ st.between_dense.rows = st.between_sparse.rows
        /\ BetweenFinal(BookBetweenConfig(config, TRUE), st.between_dense).rows
              = BetweenFinal(BookBetweenConfig(config, FALSE), st.between_sparse).rows

\* the lowest of two bids was deleted: the dense book moved its lower hint
\* over an empty slot, and replay_between_delta has emitted a row
C8_Witness ==
    /\ config.api = "book"
    /\ config.tick_size_int = 2
    /\ Len(consumed) = 3
    /\ st.dense.dense.bid_min_idx = Some(2)
    /\ st.dense.dense.bid_max_idx = Some(2)
    /\ st.dense.dense.bids = (0 :> 0 @@ 1 :> 0 @@ 2 :> 5)
    /\ levels(st.sparse) = <<<<<<104, 5>>>>, << >>>>
    /\ Len(st.between_dense.rows) = 1

(***************************************************************************)
(* Idempotent rebuild.                                                     *)
(***************************************************************************)
RowsOf(tbl) == unwrap_or(tbl, << >>)

Count(rows, r) == Cardinality({i \in DOMAIN rows : rows[i] = r})

\* the two tables hold the same rows, each as many times
SameRows(a, b) ==
    \A r \in {RowsOf(a)[i] : i \in DOMAIN RowsOf(a)} \cup {RowsOf(b)[i] : i \in DOMAIN RowsOf(b)} :
        Count(RowsOf(a), r) = Count(RowsOf(b), r)

Triple(r) == <<r.exchange, r.date, r.symbol_id>>

\* the rows of the table whose partition triple is not one of the triples
Outside(tbl, triples) == SelectSeq(RowsOf(tbl), LAMBDA r : Triple(r) \notin triples)

\* C9: a second run of build_state_checkpoints_delta on the same updates and
\* range leaves the table with exactly the rows it had after the first run,
\* and a run leaves the rows of every (exchange, date, symbol_id) triple that
\* does not occur in its output as they were.
C9_IdempotentRebuild ==
    (config.api = "build_state_checkpoints_delta" /\ st.pc = "done") =>
        /\ st.run = 2 => SameRows(table, st.start_table)
        /\ Outside(table, touched_partitions(st.rows))
              = Outside(st.start_table, touched_partitions(st.rows))

(***************************************************************************)
(* When a snapshot group is reported.                                      *)
(***************************************************************************)
\* the snapshot group of row k has been reported to on_snapshot
GroupEmitted(seq, k) ==
    \E i \in DOMAIN st.on_snapshot :
        LET e == st.on_snapshot[i]
        IN RunStart(seq, k) <= Named(e.pos) /\ Named(e.pos) <= RunEnd(seq, k)

\* the non-snapshot rows of the stream after row k
Followers(seq, k) == {j \in (k + 1)..Len(seq) : ~seq[j].is_snapshot}

FirstOf(S) == CHOOSE x \in S : \A y \in S : x <= y

\* C11, as stated: every snapshot group of the stream that a non-snapshot
\* update follows has been reported to on_snapshot before that update was
\* applied, and a group the stream ends in is reported at the end of stream.
C11_EveryGroupEmitted ==
    (config.api = "replay" /\ st.pc \in {"loop", "done"}) =>
        \A k \in DOMAIN consumed :
            consumed[k].is_snapshot =>
                LET last == RunEnd(consumed, k)
                    after == Followers(consumed, last)
                IN /\ after # {} =>
                         \E i \in DOMAIN st.on_snapshot :
                             /\ RunStart(consumed, k) <= Named(st.on_snapshot[i].pos)
                             /\ Named(st.on_snapshot[i].pos) <= last
                             /\ st.on_snapshot[i].at < FirstOf(after)
                   /\ (last = Len(consumed) /\ st.pc = "done") => GroupEmitted(consumed, k)

\* C11, amended: on_snapshot is invoked for a snapshot group right after the
\* last row of the group, before any later row is applied, and it is invoked
\* exactly for the groups whose last row is followed by a row of another
\* ts_local_us or by the end of the stream; a group that a row of the same
\* ts_local_us follows is never reported.
C11_EmissionAtGroupEnd ==
    (config.api = "replay" /\ st.pc \in {"loop", "done"}) =>
        /\ \A i \in DOMAIN st.on_snapshot :
              LET e == st.on_snapshot[i]
              IN /\ Named(e.pos) = e.at
                 /\ consumed[e.at].is_snapshot
                 /\ RunEnd(consumed, e.at) = e.at
        /\ \A k \in DOMAIN consumed :
              consumed[k].is_snapshot =>
                  LET last == RunEnd(consumed, k)
                  IN GroupEmitted(consumed, k) <=>
                        IF last < Len(consumed)
                        THEN consumed[last + 1].ts_local_us # consumed[last].ts_local_us
                        ELSE st.pc = "done"

\* a group reported when an incremental row of a later timestamp arrived, and
\* a second group, opened after that row, reported at the end of the stream
C11_Witness ==
    /\ config.api = "replay"
    /\ st.pc = "done"
    /\ Len(consumed) = 3
    /\ consumed[1].is_snapshot /\ ~consumed[2].is_snapshot /\ consumed[3].is_snapshot
    /\ consumed[2].ts_local_us > consumed[1].ts_local_us
    /\ Len(st.on_snapshot) = 2
    /\ st.on_snapshot[1].at = 1
    /\ st.on_snapshot[2].at = 3

(***************************************************************************)
(* The rows build_state_checkpoints_delta writes.                          *)
(***************************************************************************)
Deribit == <<"d", "e", "r", "i", "b", "i", "t">>

\* the rows of write_updates_table, with the start of 2025-01-01 as 0
S6Updates ==
    <<WithMeta(L2Update(1, 1, 1, TRUE, 0, 100, 10, 10), 21, 1),
      WithMeta(L2Update(1, 2, 2, TRUE, 1, 101, 5, 10), 21, 1),
      WithMeta(L2Update(2, 3, 3, FALSE, 0, 100, 0, 10), 21, 1),
      WithMeta(L2Update(3, 4, 4, FALSE, 1, 102, 3, 10), 21, 1),
      WithMeta(L2Update(4, 5, 5, FALSE, 0, 99, 7, 10), 21, 1)>>

S6Config ==
    [api |-> "build_state_checkpoints_delta",
     exchange |-> Some(Deribit), exchange_id |-> Some(21), symbol_id |-> 1,
     start_date |-> 0, end_date |-> 0,
     checkpoint_every_us |-> None, checkpoint_every_updates |-> Some(2),
     validate_monotonic |-> FALSE, assume_sorted |-> FALSE]

\* the last n rows of the table
Written(tbl, n) == SubSeq(RowsOf(tbl), Len(RowsOf(tbl)) - n + 1, Len(RowsOf(tbl)))

\* C12: when build_state_checkpoints_delta returns, the rows it appended to
\* the table are its output rows and the returned count is their number; row
\* i has checkpoint_kind "periodic", the exchange argument, the civil date of
\* its ts_local_us, and the position, exchange_id and symbol_id of the update
\* that was applied last when the row was emitted, which ends a timestamp
\* group; S6 writes 2 rows, at base+1 and base+3, with (1,1) and (0,2) levels.
C12_RowsWritten ==
    /\ (config.api = "build_state_checkpoints_delta" /\ st.pc = "done") =>
          LET n == Unwrap(st.result)
              rows == Written(table, n)
          IN /\ n = Len(st.rows)
             /\ n <= Len(RowsOf(table))
             /\ rows = st.rows
             /\ Len(RowsOf(table)) - n <= Len(RowsOf(st.start_table))
             /\ \A i \in 1..n :
                   LET at == st.emitted_at[i]
                       u == Delivered[at]
                   IN /\ rows[i].checkpoint_kind = "periodic"
                      /\ rows[i].exchange = Unwrap(config.exchange)
                      /\ rows[i].date * DayLen <= rows[i].ts_local_us
                      /\ rows[i].ts_local_us < (rows[i].date + 1) * DayLen
                      /\ CheckpointPos(rows[i]) = StreamPos(u)
                      /\ rows[i].exchange_id = u.exchange_id
                      /\ rows[i].symbol_id = u.symbol_id
                      /\ (at < Len(Delivered) =>
                            Delivered[at + 1].ts_local_us # u.ts_local_us)
    /\ LET r == build_state_checkpoints_delta(S6Config, NoTable, S6Updates)
           rows == RowsOf(r.table)
       IN /\ r.st.result = Some(2)
          /\ Len(rows) = 2
          /\ rows[1].ts_local_us = 1 /\ rows[2].ts_local_us = 3
          /\ Len(rows[1].bids) = 1 /\ Len(rows[1].asks) = 1
          /\ Len(rows[2].bids) = 0 /\ Len(rows[2].asks) = 2
          /\ \A i \in 1..2 :
                /\ rows[i].checkpoint_kind = "periodic"
                /\ rows[i].exchange = Deribit
                /\ rows[i].date = 0

\* a call that found a table wrote one row for a group of two updates with
\* different exchange_id; the row carries that of the second update
C12_Witness ==
    /\ config.api = "build_state_checkpoints_delta"
    /\ st.pc = "done"
    /\ IsSome(st.start_table)
    /\ Unwrap(config.checkpoint_every_updates) = 2
    /\ Len(consumed) = 3
    /\ consumed[1].ts_local_us = consumed[2].ts_local_us
    /\ consumed[3].ts_local_us = DayLen + 1
    /\ consumed[1].exchange_id = 1 /\ consumed[2].exchange_id = 2
    /\ st.result = Some(1)
    /\ Written(table, 1)[1].exchange_id = 2
    /\ Written(table, 1)[1].file_line_number = 2

(***************************************************************************)
(* The entries of a book.                                                  *)
(***************************************************************************)
\* the prices at which the books are probed
Probes == {l[1] : l \in AnyLevels} \cup {99, 102, 104}

\* the (price, size) pairs a book reports through levels(), bid_at and ask_at
Reported(book) ==
    {levels(book)[1][i] : i \in DOMAIN levels(book)[1]}
    \cup {levels(book)[2][i] : i \in DOMAIN levels(book)[2]}
    \cup {<<p, Unwrap(bid_at(book, p))>> : p \in {q \in Probes : IsSome(bid_at(book, q))}}
    \cup {<<p, Unwrap(ask_at(book, p))>> : p \in {q \in Probes : IsSome(ask_at(book, q))}}

\* C13: after any sequence of reset, apply_update and seed_from_levels,
\* neither the sparse nor the dense book reports an entry of size 0 through
\* levels(), bid_at or ask_at.
C13_NoZeroSize ==
    config.api = "book" =>
        \A book \in {st.sparse, st.dense} : \A l \in Reported(book) : l[2] # 0

\* C14: after any sequence of apply_update and seed_from_levels, every entry
\* of the sparse and of the dense book has a price_int > 0 and a size_int > 0.
C14_PositiveEntries ==
    config.api = "book" =>
        \A book \in {st.sparse, st.dense} :
            \A l \in Reported(book) : l[1] > 0 /\ l[2] > 0

(***************************************************************************)
(* Prices a dense book cannot hold.                                        *)
(***************************************************************************)
OutOfRange(d, price_int) == IsNone(price_to_index(d, price_int))

\* both sides, the counts and the index hints of a dense book
DenseContents(d) ==
    <<d.bids, d.asks, d.bids_len, d.asks_len,
      d.bid_min_idx, d.bid_max_idx, d.ask_min_idx, d.ask_max_idx>>

\* the diagnostics issued for one side so far
DiagnosticsOf(d, flag) == {i \in DOMAIN d.diagnostics : d.diagnostics[i][1] = flag}

\* the step applied an update of side 0 or 1 whose price the dense book
\* cannot hold
OutOfRangeApplied ==
    /\ config.api = "book"
    /\ Len(consumed') = Len(consumed) + 1
    /\ consumed'[Len(consumed')].op = "apply_update"
    /\ consumed'[Len(consumed')].update.side \in {0, 1}
    /\ OutOfRange(st.dense.dense, consumed'[Len(consumed')].update.price_int)

\* C20: an apply_update of a dense book whose price_int is outside
\* [min_price, max_price] or off the tick leaves both sides, the counts and
\* the index hints as they were and the book usable, and from the creation of
\* the book on, across reset and seed_from_levels, each side issues at most
\* one diagnostic.
C20_OutOfRangeDropped ==
    /\ [](config.api = "book" =>
            \A flag \in {"warned_bid_oob", "warned_ask_oob"} :
                Cardinality(DiagnosticsOf(st.dense.dense, flag)) <= 1)
    /\ [][OutOfRangeApplied =>
            /\ st'.dense.storage = "Dense"
            /\ DenseContents(st'.dense.dense) = DenseContents(st.dense.dense)
            /\ levels(st'.dense) = levels(st.dense)
            /\ Len(st'.dense.dense.diagnostics) <= Len(st.dense.dense.diagnostics) + 1]_vars

\* a seeded dense book was given a bid above its range and then a bid off its
\* tick: it holds the seeded levels, and one diagnostic names the first price
C20_Witness ==
    /\ config.api = "book"
    /\ Len(consumed) = 3
    /\ consumed[1].op = "seed_from_levels"
    /\ consumed[2] = ApplyOp(L2Update(1, 1, 2, FALSE, 0, 106, 5, 10))
    /\ consumed[3] = ApplyOp(L2Update(1, 1, 3, FALSE, 0, 101, 5, 10))
    /\ levels(st.dense) = <<<<<<102, 5>>>>, <<<<102, 3>>, <<104, 7>>>>>>
    /\ st.dense.dense.diagnostics = <<<<"warned_bid_oob", 106>>>>

(***************************************************************************)
(* Configuration errors.                                                   *)
(***************************************************************************)
\* every_us is unset or <= 0 and every_updates is unset or 0
NoCadence(every_us, every_updates) ==
    /\ (IsNone(every_us) \/ Unwrap(every_us) <= 0)
    /\ (IsNone(every_updates) \/ Unwrap(every_updates) = 0)

BetweenCadenceError == "replay_between: set every_us or every_updates"

\* C15: replay_between_delta fails its cadence check exactly when every_us is
\* unset or <= 0 and every_updates is unset or 0; the call then returns the
\* error with no output, no row read and no table touched, and with any other
\* pair of cadences it goes on past the check.
C15_CadenceRequired ==
    config.api = "replay_between_delta" =>
        LET none == NoCadence(config.every_us, config.every_updates)
        IN /\ none <=> (st.pc = "error" /\ st.error = BetweenCadenceError)
           /\ none => /\ st = Failed(BetweenCadenceError, << >>)
                       /\ consumed = << >>
           /\ (~none /\ config.dense_price_min = None) => st.pc \in {"loop", "done"}

\* every_us = -1 with every_updates = 0 is refused; nothing was opened
C15_Witness ==
    /\ config.api = "replay_between_delta"
    /\ config.every_us = Some(-1)
    /\ config.every_updates = Some(0)
    /\ IsSome(table)
    /\ st.pc = "error"
    /\ st.io = << >>

\* the date range a call works on
StartAfterEnd ==
    CASE config.api = "build_state_checkpoints_delta" -> config.start_date > config.end_date
      [] config.api = "snapshot_at_delta" ->
            /\ ts_to_date(config.ts_local_us).ok
            /\ unwrap_or(config.start_date, ts_to_date(config.ts_local_us).value)
                  > unwrap_or(config.end_date, ts_to_date(config.ts_local_us).value)
      [] OTHER -> FALSE

\* C16: a call with no cadence (replay_between_delta,
\* build_state_checkpoints_delta), with a start date after its end date
\* (snapshot_at_delta, build_state_checkpoints_delta) or with no exchange
\* (build_state_checkpoints_delta) returns an error before it has opened, read
\* or written any table.
C16_ConfigErrorsBeforeIo ==
    LET bad ==
          CASE config.api = "replay_between_delta" ->
                  NoCadence(config.every_us, config.every_updates)
            [] config.api = "build_state_checkpoints_delta" ->
                  \/ NoCadence(config.checkpoint_every_us, config.checkpoint_every_updates)
                  \/ IsNone(config.exchange)
                  \/ StartAfterEnd
            [] config.api = "snapshot_at_delta" -> StartAfterEnd
            [] OTHER -> FALSE
    IN bad => (st.pc = "error" /\ st.io = << >> /\ consumed = << >>)

(***************************************************************************)
(* Where the after-position predicate is enforced.                         *)
(***************************************************************************)
Resuming == config.api \in {"snapshot_at_delta", "replay_between_delta"}

\* the body of the row loop of the running call, given the row u
LoopBody(u) ==
    IF config.api = "snapshot_at_delta" THEN SnapshotAtApply(config, st, u)
    ELSE BetweenApply(config, st, u)

\* the max_ts_inclusive the running call gives to the scan
ScanMaxTs ==
    IF config.api = "snapshot_at_delta" THEN config.ts_local_us
    ELSE config.end_ts_local_us

\* the book the running call had before the first row
ResumeBook ==
    IF IsNone(st.min_pos) THEN OrderBookDefault
    ELSE IF config.api = "snapshot_at_delta" THEN BookOf(Unwrap(st.checkpoint))
    ELSE StartBook

\* the rows read so far that are above the checkpoint position and not after
\* the last timestamp of the scan
AfterPos ==
    SelectSeq(consumed, LAMBDA u :
        /\ u.ts_local_us <= ScanMaxTs
        /\ (IsSome(st.min_pos) => KeyBelow(Unwrap(st.min_pos), u)))

InPartition(rows, triple) == SelectSeq(rows, LAMBDA r : Triple(r) = triple)

\* C17: wherever build_state_checkpoints_delta stops in its write phase
\* (before, between and after the deletes, and after the append), each
\* (exchange, date, symbol_id) triple of its output rows holds in the table
\* all of its old rows, no row, or exactly its new rows.
C17_WritePhaseAtomic ==
    (config.api = "build_state_checkpoints_delta"
     /\ st.pc \in {"delete", "append", "done", "error"}) =>
        \A triple \in touched_partitions(st.rows) :
            LET now == InPartition(RowsOf(table), triple)
                old == InPartition(RowsOf(st.start_table), triple)
                new == InPartition(st.rows, triple)
            IN now = old \/ now = << >> \/ now = new

(***************************************************************************)
(* The monotonic guard of replay.                                          *)
(***************************************************************************)
\* the step detects an ordering violation, or one has been detected
ViolationStep == st.pc = "panic" \/ st'.pc = "panic"

\* C18: in replay with validate_monotonic, the step that detects an ordering
\* violation, and every step after it, invokes neither callback and leaves
\* the book and the number of applied updates as they were: the violating
\* update is not applied and the pending emission for the group before it is
\* not made.
C18_NoCallbackOnViolation ==
    [][(config.api = "replay" /\ ViolationStep) =>
          /\ config.validate_monotonic
          /\ st'.on_snapshot = st.on_snapshot
          /\ st'.on_checkpoint = st.on_checkpoint
          /\ st'.book = st.book
          /\ st'.applied = st.applied]_vars

\* a violation is detected on a timestamp boundary while a snapshot group and
\* a cadence emission are pending for the group before it
C18_Witness ==
    /\ config.api = "replay"
    /\ st.pc = "panic"
    /\ st.applied = Len(consumed) - 1
    /\ ts_boundary(st.last_pos, consumed[Len(consumed)])
    /\ IsSome(st.snapshot_key) /\ IsSome(st.snapshot_pos)
    /\ should_emit(st.cadence, Unwrap(st.last_pos).ts_local_us,
                   config.checkpoint_every_us, config.checkpoint_every_updates).emit
    /\ st.on_snapshot = << >>
    /\ st.book.bids # EmptyMap

(***************************************************************************)
(* The side column.                                                        *)
(***************************************************************************)
NegativeSide(cols) == cols.side_type = "Int8" /\ cols.side < 0
Readable(cols) == cols.side_type = "UInt8" \/ (cols.side_type = "Int8" /\ cols.side >= 0)

\* the update a stored row stands for, its side being the stored value
AsStored(cols) == [f \in (DOMAIN cols) \ {"side_type"} |-> cols[f]]

\* the state the running call had before the first row
CallInit ==
    IF config.api = "build_state_checkpoints_delta" THEN BuildInit(config)
    ELSE InitOf(config, table)

\* the stored rows the stream gave to the row loop
Decoded ==
    IF config.api = "build_state_checkpoints_delta" THEN consumed
    ELSE SelectSeq(consumed, LAMBDA cols :
            ScanPredicate(cols, ScanMaxTs, CallInit.min_pos))

\* C21: the decoder returns the stored side for a uint8 cell and for a
\* non-negative int8 cell, and an error for a negative int8 cell.  A call
\* whose loop was given a negative int8 side has ended in an error with no
\* result, and build_state_checkpoints_delta has then made no delete and no
\* write; a call whose loop was given only readable sides has applied every
\* row with the stored side.
C21_SideDecoding ==
    /\ \A cols \in {Stored(u, cell) : u \in BuildUpdates, cell \in EdgeCells} :
          LET update == update_from_columns(cols)
              pair == checkpoint_update_from_columns(cols)
          IN /\ Readable(cols) =>
                  /\ update.ok /\ update.value.side = cols.side
                  /\ pair.ok /\ pair.value.side = cols.side
             /\ NegativeSide(cols) => (~update.ok /\ ~pair.ok)
    /\ (\E i \in DOMAIN Decoded : NegativeSide(Decoded[i])) =>
          /\ st.pc = "error"
          /\ ("result" \in DOMAIN st => st.result = None)
          /\ config.api = "build_state_checkpoints_delta" =>
                /\ table = st.start_table
                /\ \A k \in DOMAIN st.io : st.io[k] \notin {"delete", "write"}
    /\ ((\A i \in DOMAIN Decoded : Readable(Decoded[i])) /\ st.pc # "error") =>
          /\ st.applied = Len(Decoded)
          /\ st.book = ApplyStream(CallInit.book,
                                   [i \in DOMAIN Decoded |-> AsStored(Decoded[i])])

\* build_state_checkpoints_delta, on an existing table, has a checkpoint row
\* in memory when its loop is given a negative int8 side after a uint8 and
\* an int8 one
C21_Witness ==
    /\ config.api = "build_state_checkpoints_delta"
    /\ IsSome(table)
    /\ Len(consumed) = 3
    /\ consumed[1].side_type = "UInt8" /\ consumed[1].side = 1
    /\ consumed[2].side_type = "Int8" /\ consumed[2].side = 0
    /\ NegativeSide(consumed[3])
    /\ st.pc = "error"
    /\ st.rows # << >>
    /\ st.book.asks # EmptyMap /\ st.book.bids # EmptyMap

(***************************************************************************)
(* The checkpoint lookup.                                                  *)
(***************************************************************************)
\* the rows of the table the lookup may return: those of the partition of the
\* civil date of the target (and of the exchange, when one is given) with the
\* exchange_id and symbol_id asked for and a timestamp up to the target
Matching ==
    IF IsNone(config.checkpoint_path) \/ IsNone(table) THEN {}
    ELSE {r \in {Unwrap(table)[i] : i \in DOMAIN Unwrap(table)} :
            /\ r.date = config.ts_local_us \div DayLen
            /\ (IsSome(config.exchange) => r.exchange = Unwrap(config.exchange))
            /\ r.exchange_id = config.exchange_id
            /\ r.symbol_id = config.symbol_id
            /\ r.ts_local_us <= config.ts_local_us}

\* a row as the Checkpoint the lookup returns for it
AsCheckpoint(r) ==
    [ts_local_us |-> r.ts_local_us, file_id |-> r.file_id, ingest_seq |-> r.ingest_seq,
     file_line_number |-> r.file_line_number, bids |-> r.bids, asks |-> r.asks]

\* C22: latest_checkpoint returns the matching row whose StreamPos is
\* greatest, and None when there is no matching row, no checkpoint path or
\* no checkpoint table.
C22_LatestCheckpoint ==
    (config.api = "latest_checkpoint" /\ st.pc = "done") =>
        LET result == Unwrap(st.result)
        IN /\ result.ok
           /\ IF Matching = {} THEN result.value = None
              ELSE /\ IsSome(result.value)
                   /\ \E r \in Matching :
                         /\ \A q \in Matching : ~KeyBelow(r, q)
                         /\ Unwrap(result.value) = AsCheckpoint(r)

\* the lookup for a target on day 0 returned the second row of a table whose
\* first row is a matching row of a smaller position; the lookup for a target
\* on day 1 found nothing in a table that holds a row of day 0
C22_Witness ==
    /\ config.api = "latest_checkpoint" /\ st.pc = "done"
    /\ IsSome(table) /\ Len(Unwrap(table)) = 2
    /\ Cardinality(Matching) = 2
    /\ KeyBelow(Unwrap(table)[1], Unwrap(table)[2])
    /\ Unwrap(st.result).value = Some(AsCheckpoint(Unwrap(table)[2]))

C22_WitnessNone ==
    /\ config.api = "latest_checkpoint" /\ st.pc = "done"
    /\ IsSome(config.checkpoint_path) /\ IsSome(table) /\ Unwrap(table) # << >>
    /\ config.ts_local_us >= DayLen
    /\ \A i \in DOMAIN Unwrap(table) : Unwrap(table)[i].date = 0
    /\ Unwrap(st.result) = Ok(None)

(***************************************************************************)
(* The vote of CadenceState.                                               *)
(***************************************************************************)
\* the vote replay asks for next, at last_pos, and what it does to the state
NextVoteOf(s) ==
    should_emit(s.cadence, Unwrap(s.last_pos).ts_local_us,
                config.checkpoint_every_us, config.checkpoint_every_updates)

\* last_emit_ts after the initialisation should_emit starts with
LastEmitTs(s) == unwrap_or(s.cadence.last_emit_ts, Unwrap(s.last_pos).ts_local_us)

ByTime(s) ==
    /\ IsSome(config.checkpoint_every_us)
    /\ Unwrap(s.last_pos).ts_local_us - LastEmitTs(s) >= Unwrap(config.checkpoint_every_us)

\* what a vote does to the state, given that it is `emit`
VoteEffect(s, emit) ==
    LET vote == NextVoteOf(s)
    IN /\ vote.emit = emit
       /\ vote.cadence.last_emit_ts
             = Some(IF emit THEN Unwrap(s.last_pos).ts_local_us ELSE LastEmitTs(s))
       /\ vote.cadence.updates_since_emit
             = IF emit THEN 0 ELSE s.cadence.updates_since_emit

Voting == config.api = "replay" /\ st.pc = "loop" /\ IsSome(st.last_pos)

\* C23, as stated: should_emit returns true iff every_us is set and
\* pos_ts - last_emit_ts >= every_us, or every_updates is set and
\* updates_since_emit >= every_updates.
C23_VoteAsStated ==
    Voting =>
        VoteEffect(st, \/ ByTime(st)
                       \/ /\ IsSome(config.checkpoint_every_updates)
                          /\ st.cadence.updates_since_emit
                                >= Unwrap(config.checkpoint_every_updates))

\* C23, amended: should_emit, after initialising last_emit_ts to pos_ts when
\* it is unset, returns true iff every_us is set and
\* pos_ts - last_emit_ts >= every_us, or every_updates is set and positive and
\* updates_since_emit >= every_updates; a true vote resets the counter and
\* sets last_emit_ts = pos_ts, a false one leaves the counter and a set
\* last_emit_ts unchanged.
C23_VotePositiveCount ==
    Voting =>
        VoteEffect(st, \/ ByTime(st)
                       \/ /\ IsSome(config.checkpoint_every_updates)
                          /\ Unwrap(config.checkpoint_every_updates) > 0
                          /\ st.cadence.updates_since_emit
                                >= Unwrap(config.checkpoint_every_updates))

\* with every_updates = 0 and every_us = 2, a vote by count alone would be due
\* and no checkpoint was emitted; the time cadence then has emitted one
C23_Witness ==
    /\ config.api = "replay"
    /\ config.checkpoint_every_updates = Some(0)
    /\ config.checkpoint_every_us = Some(2)
    /\ Len(consumed) = 3
    /\ consumed[1].ts_local_us = 0 /\ consumed[2].ts_local_us = 1
    /\ consumed[3].ts_local_us = 2
    /\ st.pc = "done"
    /\ Len(st.on_checkpoint) = 1
    /\ st.on_checkpoint[1].pos.ts_local_us = 2
    /\ st.cadence = [last_emit_ts |-> Some(2), updates_since_emit |-> 0]

(***************************************************************************)
(* Rows before the start of replay_between_delta.                          *)
(***************************************************************************)
InWindow(u) == u.ts_local_us >= config.start_ts_local_us

\* the number of rows applied when the last row was emitted, 0 before that
LastEmittedAt(s) == IF s.emitted_at = << >> THEN 0 ELSE s.emitted_at[Len(s.emitted_at)]

\* C24: in replay_between_delta every row the stream delivers is applied to
\* the book, those before start_ts_local_us included; the cadence counter is
\* the number of rows at or after the start applied since the last emission;
\* no vote is asked for a timestamp before the start (last_emit_ts, which a
\* vote sets, is never before it); every emitted row has
\* ts_local_us >= start_ts_local_us.
C24_RowsBeforeStart ==
    (config.api = "replay_between_delta" /\ st.pc \in {"loop", "done"}) =>
        /\ st.applied = Len(Delivered)
        /\ st.book = ApplyStream(StartBook, Delivered)
        /\ st.cadence.updates_since_emit
              = Len(SelectSeq(SubSeq(Delivered, LastEmittedAt(st) + 1, Len(Delivered)),
                              InWindow))
        /\ IsSome(st.cadence.last_emit_ts) =>
              Unwrap(st.cadence.last_emit_ts) >= config.start_ts_local_us
        /\ (\A i \in DOMAIN Delivered : ~InWindow(Delivered[i])) =>
              st.cadence = CadenceDefault
        /\ \A i \in DOMAIN st.rows : st.rows[i].ts_local_us >= config.start_ts_local_us

\* with a start at 2 and every_updates = 2, two rows at 1 and one row at 2
\* were applied and nothing was emitted: only the third row was counted
C24_Witness ==
    /\ config.api = "replay_between_delta"
    /\ config.start_ts_local_us = 2
    /\ config.every_updates = Some(2) /\ config.every_us = None
    /\ IsNone(table)
    /\ Len(consumed) = 3
    /\ consumed[1].ts_local_us = 1 /\ consumed[2].ts_local_us = 1
    /\ consumed[3].ts_local_us = 2
    /\ st.pc = "done"
    /\ st.applied = 3
    /\ st.book.bids # EmptyMap
    /\ st.cadence.updates_since_emit = 1
    /\ st.rows = << >>

(***************************************************************************)
(* The final group.                                                        *)
(***************************************************************************)
\* the step that follows the last update: the stream is exhausted
StreamEnds == st.pc = "loop" /\ st'.pc # "loop" /\ consumed' = consumed

\* the book after every update of the stream, and the position of the last
FullBook == ApplyStream(StartBook, Delivered)
FinalPos == StreamPos(Delivered[Len(Delivered)])

\* the vote on the cadence at the end of the stream
FinalVote ==
    IF config.api = "replay"
    THEN should_emit(st.cadence, FinalPos.ts_local_us, config.checkpoint_every_us,
                     config.checkpoint_every_updates).emit
    ELSE should_emit(st.cadence, FinalPos.ts_local_us, st.every_us, st.every_updates).emit

BetweenFinalVote ==
    /\ FinalPos.ts_local_us >= config.start_ts_local_us
    /\ should_emit(st.cadence, FinalPos.ts_local_us, config.every_us,
                   config.every_updates).emit

\* the levels and the position an emitted row carries
RowView(r) ==
    [ts_local_us |-> r.ts_local_us, ingest_seq |-> r.ingest_seq,
     file_line_number |-> r.file_line_number, file_id |-> r.file_id,
     bids |-> r.bids, asks |-> r.asks]

FinalRow ==
    [ts_local_us |-> FinalPos.ts_local_us, ingest_seq |-> FinalPos.ingest_seq,
     file_line_number |-> FinalPos.file_line_number, file_id |-> FinalPos.file_id,
     bids |-> levels(FullBook)[1], asks |-> levels(FullBook)[2]]

FinalCall == [book |-> FullBook, pos |-> FinalPos, at |-> Len(Delivered)]

\* after is before followed by one element e when due, and before otherwise
OnceMore(before, after, due, e) ==
    after = IF due THEN Append(before, e) ELSE before

\* C25: when the stream ends after at least one update, replay,
\* replay_between_delta and build_state_checkpoints_delta evaluate the
\* emission logic once more, at the position of the last update and with the
\* book after every update: one more on_snapshot call if a snapshot group is
\* open, one more on_checkpoint call or row if the cadence votes for it (and,
\* in replay_between_delta, the position is not before the start), and
\* nothing else.  When the stream ends with no update nothing is emitted.
C25_FinalFlush ==
    [][StreamEnds =>
          IF Delivered = << >>
          THEN CASE config.api = "replay" ->
                        st'.on_snapshot = << >> /\ st'.on_checkpoint = << >>
                 [] OTHER -> st'.rows = << >>
          ELSE CASE config.api = "replay" ->
                        /\ OnceMore(st.on_snapshot, st'.on_snapshot,
                                    Delivered[Len(Delivered)].is_snapshot, FinalCall)
                        /\ OnceMore(st.on_checkpoint, st'.on_checkpoint,
                                    FinalVote, FinalCall)
                 [] config.api = "replay_between_delta" ->
                        OnceMore([i \in DOMAIN st.rows |-> RowView(st.rows[i])],
                                 [i \in DOMAIN st'.rows |-> RowView(st'.rows[i])],
                                 BetweenFinalVote, FinalRow)
                 [] config.api = "build_state_checkpoints_delta" ->
                        OnceMore([i \in DOMAIN st.rows |-> RowView(st.rows[i])],
                                 [i \in DOMAIN st'.rows |-> RowView(st'.rows[i])],
                                 FinalVote, FinalRow)]_vars

\* replay_between_delta returned a batch whose last row was emitted after the
\* stream ended, for a final group of two updates
C25_Witness ==
    /\ config.api = "replay_between_delta"
    /\ st.pc = "done"
    /\ Len(consumed) = 3
    /\ consumed[2].ts_local_us = consumed[3].ts_local_us
    /\ consumed[2].side # consumed[3].side
    /\ st.rows # << >>
    /\ st.emitted_at[Len(st.emitted_at)] = 3
    /\ st.rows[Len(st.rows)].file_line_number = 3
    /\ st.rows[Len(st.rows)].bids # << >> /\ st.rows[Len(st.rows)].asks # << >>

(***************************************************************************)
(* The after-position filter.                                              *)
(***************************************************************************)
\* C26: the rows the after-position filter lets through are the rows whose
\* (ts_local_us, ingest_seq, file_id, file_line_number) is strictly greater
\* than pos in lexicographic order; a row equal to pos is rejected.
C26_StrictlyAfter ==
    config.api = "after_pos_expr" =>
        /\ st.passed = SelectSeq(consumed, LAMBDA row : KeyBelow(config.pos, row))
        /\ \A row \in PosRows :
              /\ after_pos_expr(config.pos, row)
                    <=> TupleLess(current_key(config.pos), current_key(row))
              /\ StreamPos(row) = config.pos => ~after_pos_expr(config.pos, row)

\* the scan met the row at pos, a row that is above pos in file_id and below
\* it in file_line_number, and a row that is below pos in ingest_seq and above
\* it in file_id; only the second one passed
C26_Witness ==
    /\ config.api = "after_pos_expr"
    /\ Len(consumed) = 3
    /\ StreamPos(consumed[1]) = config.pos
    /\ consumed[2].ts_local_us = config.pos.ts_local_us
    /\ consumed[2].ingest_seq = config.pos.ingest_seq
    /\ consumed[2].file_id > config.pos.file_id
    /\ consumed[2].file_line_number < config.pos.file_line_number
    /\ consumed[3].ts_local_us = config.pos.ts_local_us
    /\ consumed[3].ingest_seq < config.pos.ingest_seq
    /\ consumed[3].file_id > config.pos.file_id
    /\ st.passed = <<consumed[2]>>

(***************************************************************************)
(* apply_update: the entry it writes and the entries it leaves alone.      *)
(***************************************************************************)
\* the step applied the update Applied to both books
ApplyStepTaken ==
    /\ config.api = "book"
    /\ Len(consumed') = Len(consumed) + 1
    /\ consumed'[Len(consumed')].op = "apply_update"

Applied == consumed'[Len(consumed')].update

EntryAt(book, side, price_int) ==
    IF side = 0 THEN bid_at(book, price_int) ELSE ask_at(book, price_int)

\* apply_update has written u to the entry at (u.side, u.price_int) of
\* `after` and left every other entry as it is in `before`
Written1(before, after, u) ==
    /\ EntryAt(after, u.side, u.price_int)
          = IF u.size_int = 0 THEN None ELSE Some(u.size_int)
    /\ \A side \in Sides : \A price_int \in Probes :
          <<side, price_int>> # <<u.side, u.price_int>> =>
              EntryAt(after, side, price_int) = EntryAt(before, side, price_int)
    /\ levels(after)[2 - u.side] = levels(before)[2 - u.side]
    /\ (u.size_int = 0 /\ IsNone(EntryAt(before, u.side, u.price_int))) =>
          levels(after) = levels(before)

\* apply_update has left every entry as it is in `before`
Untouched(before, after) ==
    /\ levels(after) = levels(before)
    /\ \A side \in Sides : \A price_int \in Probes :
          EntryAt(after, side, price_int) = EntryAt(before, side, price_int)

\* C27, as stated: in the sparse and in the dense book, apply_update with
\* size_int = 0 removes the entry at (side, price_int) and with size_int # 0
\* sets it to size_int, and every other entry is left unchanged.
C27_EntryWritten ==
    [][(ApplyStepTaken /\ Applied.side \in Sides) =>
          /\ Written1(st.sparse, st'.sparse, Applied)
          /\ Written1(st.dense, st'.dense, Applied)]_vars

\* C27, amended: the same for the sparse book, and for the dense book when
\* price_int is a price of its grid; at any other price the dense book is
\* left with every entry unchanged.
C27_EntryWrittenOnGrid ==
    [][(ApplyStepTaken /\ Applied.side \in Sides) =>
          /\ Written1(st.sparse, st'.sparse, Applied)
          /\ IF OutOfRange(st.dense.dense, Applied.price_int)
             THEN Untouched(st.dense, st'.dense)
             ELSE Written1(st.dense, st'.dense, Applied)]_vars

\* both books were seeded with a bid at 102 and asks at 102 and 104, a bid
\* was then set at 100 and removed again
C27_Witness ==
    /\ config.api = "book"
    /\ Len(consumed) = 3
    /\ consumed[1].op = "seed_from_levels"
    /\ consumed[2] = ApplyOp(L2Update(1, 1, 2, FALSE, 0, 100, 5, 10))
    /\ consumed[3] = ApplyOp(L2Update(1, 1, 3, FALSE, 0, 100, 0, 10))
    /\ \A book \in {st.sparse, st.dense} :
          levels(book) = <<(<<(<<102, 5>>)>>), (<<(<<102, 3>>), (<<104, 7>>)>>)>>

(***************************************************************************)
(* An update of a side that is neither bid nor ask.                        *)
(***************************************************************************)
InvalidSideApplied == ApplyStepTaken /\ Applied.side \notin Sides

\* the update was skipped: both books are as they were in every field, and
\* the two replays have taken the row, hold the book they held and go on
Skipped ==
    /\ st'.pc = "ops"
    /\ st'.sparse = st.sparse
    /\ st'.dense = st.dense
    /\ \A f \in {"between_sparse", "between_dense"} :
          /\ st'[f].pc = "loop"
          /\ st'[f].book = st[f].book
          /\ st'[f].applied = st[f].applied + 1
          /\ st'[f].last_pos = Some(StreamPos(Applied))

\* the replays hold the books that were given the same updates directly
ReplaysInStep ==
    (config.api = "book" /\ st.pc = "ops") =>
        /\ st.between_sparse.book = st.sparse
        /\ st.between_dense.book = st.dense

\* C28, as stated: an update whose side is neither 0 nor 1 is skipped, the
\* book is left unchanged in both representations and the replay continues
\* with the next update.
C28_InvalidSideSkipped ==
    [][InvalidSideApplied => Skipped]_vars

\* C28, amended: in a build without debug assertions such an update is
\* skipped, the book is left unchanged in both representations (dense counts,
\* index hints and warning flags included) and the replay continues with the
\* next update; in a build with debug assertions apply_update panics.
C28_SkippedUnlessDebug ==
    /\ []ReplaysInStep
    /\ [][InvalidSideApplied =>
            IF config.debug_assertions THEN st'.pc = "panic" ELSE Skipped]_vars

\* without debug assertions, a bid, then an update of side 2 at the same
\* price, then an ask were applied: the books hold the bid and the ask
C28_Witness ==
    /\ config.api = "book" /\ ~config.debug_assertions
    /\ st.pc = "ops"
    /\ Len(consumed) = 3
    /\ consumed[1].update.side = 0 /\ consumed[1].update.size_int = 5
    /\ consumed[2].update.side = 2 /\ consumed[2].update.size_int = 5
    /\ consumed[3].update.side = 1 /\ consumed[3].update.size_int = 5
    /\ \A i \in 1..3 : consumed[i].update.price_int = 100
    /\ \A book \in {st.sparse, st.dense, st.between_sparse.book, st.between_dense.book} :
          levels(book) = <<(<<(<<100, 5>>)>>), (<<(<<100, 5>>)>>)>>
    /\ st.between_sparse.applied = 3

(***************************************************************************)
(* The counts and index hints of a dense book.                             *)
(***************************************************************************)
\* the indices of one side that hold a non-zero size
NonZero(d, f) == {i \in DOMAIN d[f.arr] : d[f.arr][i] # 0}

\* C29: in a dense book, after any sequence of apply_update, reset and
\* seed_from_levels, the count of each side is the number of its non-zero
\* slots, min_idx and max_idx are the smallest and the largest index holding
\* a non-zero size (None when there is none), and levels() lists every
\* non-zero slot.
C29_DenseHints ==
    config.api = "book" =>
        \A side \in Sides :
            LET d == st.dense.dense
                f == DenseSideFields(side)
                nz == NonZero(d, f)
            IN /\ d[f.len] = Cardinality(nz)
               /\ d[f.min] = IF nz = {} THEN None
                             ELSE Some(CHOOSE i \in nz : \A j \in nz : i <= j)
               /\ d[f.max] = IF nz = {} THEN None
                             ELSE Some(CHOOSE i \in nz : \A j \in nz : i >= j)
               /\ {l[1] : l \in {levels(st.dense)[side + 1][k] :
                                    k \in DOMAIN levels(st.dense)[side + 1]}}
                     = {d.min_price_int + i * d.tick_size_int : i \in nz}


(***************************************************************************)
(* levels(): every entry once, best price first.                           *)
(***************************************************************************)
\* the (price, size) entries one side of a book holds
BookEntries(book, side) ==
    IF book.storage = "BTree"
    THEN LET m == IF side = 0 THEN book.bids ELSE book.asks
         IN {<<p, m[p]>> : p \in DOMAIN m}
    ELSE LET d == book.dense
             f == DenseSideFields(side)
         IN {<<d.min_price_int + i * d.tick_size_int, d[f.arr][i]>> : i \in NonZero(d, f)}

\* the sequence lists every element of the set, each once
ListsOnce(seq, S) ==
    /\ {seq[k] : k \in DOMAIN seq} = S
    /\ Len(seq) = Cardinality(S)

BestFirst(seq, side) ==
    \A k \in 1..(Len(seq) - 1) :
        IF side = 0 THEN seq[k][1] > seq[k + 1][1] ELSE seq[k][1] < seq[k + 1][1]

\* C30: after any sequence of operations, in the sparse and in the dense
\* book, levels() lists every entry of each side exactly once, the bids in
\* strictly descending and the asks in strictly ascending price order.
C30_LevelsComplete ==
    config.api = "book" =>
        \A book \in {st.sparse, st.dense} : \A side \in Sides :
            /\ ListsOnce(levels(book)[side + 1], BookEntries(book, side))
            /\ BestFirst(levels(book)[side + 1], side)

\* both books hold two bids and three asks after a seed and two updates
C30_Witness ==
    /\ config.api = "book"
    /\ Len(consumed) = 3
    /\ consumed[1].op = "seed_from_levels"
    /\ consumed[2].op = "apply_update"
    /\ consumed[3].op = "apply_update"
    /\ \A book \in {st.sparse, st.dense} :
          levels(book) = <<(<<(<<102, 5>>), (<<100, 5>>)>>),
                           (<<(<<100, 5>>), (<<102, 3>>), (<<104, 7>>)>>)>>


(***************************************************************************)
(* seed_from_levels: the book after a seed, and the checkpoint round trip. *)
(***************************************************************************)
\* the step seeded both books with the lists of Seeded
SeedStepTaken ==
    /\ config.api = "book"
    /\ Len(consumed') = Len(consumed) + 1
    /\ consumed'[Len(consumed')].op = "seed_from_levels"

Seeded == consumed'[Len(consumed')]

GivenLevels(seed, side) == IF side = 0 THEN seed.bids ELSE seed.asks

Elems(seq) == {seq[k] : k \in DOMAIN seq}

\* the levels of a list that no later level of the same price replaces
LastOfPrice(lv) ==
    {lv[k] : k \in {k \in DOMAIN lv : \A j \in DOMAIN lv : j > k => lv[j][1] # lv[k][1]}}

\* the levels of a list a book reports after being seeded with it
KeptLevels(book, lv) ==
    IF book.storage = "BTree" THEN LastOfPrice(lv)
    ELSE {l \in LastOfPrice(lv) : IsSome(price_to_index(book.dense, l[1])) /\ l[2] # 0}

\* a fresh sparse book seeded with the levels of b reports the levels of b
RoundTrip(b) ==
    levels(seed_from_levels(OrderBookDefault, levels(b)[1], levels(b)[2])) = levels(b)

RoundTripAll == config.api = "book" => \A b \in {st.sparse, st.dense} : RoundTrip(b)

\* C31 as stated: after seed_from_levels(bids, asks) the book, whatever it
\* held before, holds exactly the given levels, and a fresh sparse book
\* seeded with the levels() of any book reports the same levels().
C31_SeedExact ==
    /\ []RoundTripAll
    /\ [][SeedStepTaken =>
            \A book \in {st'.sparse, st'.dense} : \A side \in Sides :
                ListsOnce(levels(book)[side + 1], Elems(GivenLevels(Seeded, side)))]_vars

\* C31, amended: after seed_from_levels(bids, asks) the book, whatever it
\* held before, reports exactly the given levels, a later level replacing an
\* earlier one of the same price, and in the dense representation without
\* the levels whose price is outside the range or off the tick and without
\* the levels of size 0; a fresh sparse book seeded with the levels() of any
\* book reports the same levels().
C31_SeedKept ==
    /\ []RoundTripAll
    /\ [][SeedStepTaken =>
            \A book \in {st'.sparse, st'.dense} : \A side \in Sides :
                ListsOnce(levels(book)[side + 1], KeptLevels(book, GivenLevels(Seeded, side)))]_vars

\* both books held a bid at 100 and were then seeded with a bid at 102 and
\* asks at 104 and 102
C31_Witness ==
    /\ config.api = "book"
    /\ Len(consumed) = 2
    /\ consumed[1] = ApplyOp(L2Update(1, 1, 1, FALSE, 0, 100, 5, 10))
    /\ consumed[2] = SeedOp(<<(<<102, 5>>)>>, <<(<<104, 7>>), (<<102, 3>>)>>)
    /\ \A book \in {st.sparse, st.dense} :
          /\ levels(book) = <<(<<(<<102, 5>>)>>), (<<(<<102, 3>>), (<<104, 7>>)>>)>>
          /\ RoundTrip(book)


(***************************************************************************)
(* build_state_checkpoints_delta: a failure of the replay phase.           *)
(***************************************************************************)
\* the build has failed before its write phase: a decode error, a timestamp
\* without civil date or an ordering violation
ReplayPhaseFailed ==
    /\ config.api = "build_state_checkpoints_delta"
    /\ IsSome(st.error) \/ IsSome(st.panic)

\* neither a delete nor an append has been issued
NothingWritten ==
    /\ table = st.start_table
    /\ \A k \in DOMAIN st.io : st.io[k] \notin {"delete", "write", "open_table(output_path)"}

\* C32: when build_state_checkpoints_delta fails during the replay phase
\* (decode error, timestamp with no civil date, ordering violation under
\* validate_monotonic), the call has ended, the checkpoint table is as the
\* call found it and neither a delete nor an append has been issued.
C32_FailureWritesNothing ==
    ReplayPhaseFailed =>
        /\ st.pc \in {"error", "panic"}
        /\ NothingWritten

\* a table with a row of day 0; the build had a row of day 0 ready to write
\* when the third stored row held a negative side
C32_Witness ==
    /\ ReplayPhaseFailed
    /\ st.pc = "error"
    /\ Len(consumed) = 3
    /\ consumed[3].side = -1
    /\ Len(st.rows) = 1
    /\ st.rows[1].date = 0
    /\ table = Some(<<Checkpoint0>>)


(***************************************************************************)
(* replay and replay_between_delta on the same stream.                     *)
(***************************************************************************)
\* the (position, levels) pairs replay has passed to on_checkpoint
ReplayEmissions(s) ==
    [i \in DOMAIN s.on_checkpoint |->
        <<s.on_checkpoint[i].pos, levels(s.on_checkpoint[i].book)>>]

\* the (position, levels) pairs of the rows replay_between_delta has emitted;
\* a call that returned an error has emitted none
BetweenEmissions(s) ==
    IF s.pc = "error" THEN << >>
    ELSE [i \in DOMAIN s.rows |->
            <<[ts_local_us |-> s.rows[i].ts_local_us, ingest_seq |-> s.rows[i].ingest_seq,
               file_line_number |-> s.rows[i].file_line_number,
               file_id |-> s.rows[i].file_id],
              <<s.rows[i].bids, s.rows[i].asks>>>>]

StartNotAfterFirst ==
    consumed # << >> => config.start_ts_local_us <= consumed[1].ts_local_us

\* C33: for the same update stream and cadence settings, with no checkpoint
\* and start_ts_local_us not greater than the first update's timestamp, the
\* (position, book levels) pairs replay passes to on_checkpoint are the rows
\* replay_between_delta emits, in the same order.
C33_SameEmissions ==
    (config.api = "trio" /\ StartNotAfterFirst) =>
        ReplayEmissions(st.replay) = BetweenEmissions(st.between)


(***************************************************************************)
(* Resuming from a checkpoint the build has emitted.                       *)
(***************************************************************************)
\* snapshot_at_delta's book for the target T when it starts from the row C:
\* a sparse book seeded from C, then the rows the scan keeps
ResumedAt(C, T) ==
    ApplyStream(seed_from_levels(OrderBookDefault, C.bids, C.asks),
                SelectSeq(Delivered, LAMBDA u : ScanPredicate(u, T, Some(CheckpointPos(C)))))

\* the book for the target T without a checkpoint
ReplayedTo(T) ==
    ApplyStream(OrderBookDefault, SelectSeq(Delivered, LAMBDA u : ScanPredicate(u, T, None)))

\* C34: on a stream in four-key order, for every row C that
\* build_state_checkpoints_delta emits and every T >= C.ts_local_us, a sparse
\* book seeded from C and given, through SnapshotReset, the updates after
\* C's position with ts_local_us <= T has the levels of an empty book given
\* all updates with ts_local_us <= T.
C34_ResumeEqualsFull ==
    (/\ config.api = "build_state_checkpoints_delta"
     /\ st.pc \in {"loop", "done", "delete", "append"}
     /\ Monotone(Delivered)) =>
        \A i \in DOMAIN st.rows : \A T \in st.rows[i].ts_local_us..MaxTs :
            levels(ResumedAt(st.rows[i], T)) = levels(ReplayedTo(T))

\* the build emitted a row after a snapshot group of a bid and an ask at
\* ts 1, and an update of ts 2 followed
C34_Witness ==
    /\ config.api = "build_state_checkpoints_delta"
    /\ st.pc = "loop"
    /\ Monotone(Delivered)
    /\ Len(Delivered) = 3
    /\ Delivered[1].is_snapshot /\ Delivered[2].is_snapshot
    /\ Delivered[1].side # Delivered[2].side
    /\ Delivered[1].file_id = Delivered[2].file_id
    /\ Delivered[1].ts_local_us = 1 /\ Delivered[2].ts_local_us = 1
    /\ Delivered[3].ts_local_us = 2
    /\ Len(st.rows) = 1
    /\ Len(st.rows[1].bids) = 1 /\ Len(st.rows[1].asks) = 1
    /\ levels(ResumedAt(st.rows[1], 2)) = levels(st.book)


(***************************************************************************)
(* The emissions of one replay, in the three emitting APIs.                *)
(***************************************************************************)
\* the positions of the rows build_state_checkpoints_delta has collected
BuildPositions(s) ==
    IF s.pc = "error" THEN << >>
    ELSE [i \in DOMAIN s.rows |-> CheckpointPos(s.rows[i])]

\* the positions emitted so far, per API
EmittedPositions ==
    <<[i \in DOMAIN st.replay.on_checkpoint |-> st.replay.on_checkpoint[i].pos],
      [i \in DOMAIN BetweenEmissions(st.between) |-> BetweenEmissions(st.between)[i][1]],
      BuildPositions(st.build)>>

\* the position of the last update of the stream with this timestamp
LastOfGroup(ts) ==
    LET k == CHOOSE k \in DOMAIN consumed :
                /\ consumed[k].ts_local_us = ts
                /\ \A j \in DOMAIN consumed : consumed[j].ts_local_us = ts => j <= k
    IN StreamPos(consumed[k])

\* C35: on a stream in four-key order the emissions of replay, of
\* replay_between_delta and of build_state_checkpoints_delta have strictly
\* increasing ts_local_us, and each carries the position of the last update
\* of its timestamp group.
C35_OnePerTimestamp ==
    (config.api = "trio" /\ Monotone(consumed)) =>
        \A a \in 1..3 :
            LET E == EmittedPositions[a]
            IN /\ \A i \in 1..(Len(E) - 1) : E[i].ts_local_us < E[i + 1].ts_local_us
               /\ \A i \in DOMAIN E : E[i] = LastOfGroup(E[i].ts_local_us)

\* two updates at ts 0 and one at ts 2, every_us = 2 and every_updates = 2:
\* each API has emitted for the group of ts 0 at its second update and for
\* the group of ts 2
C35_Witness ==
    /\ config.api = "trio"
    /\ st.pc = "done"
    /\ config.every_us = Some(2) /\ config.every_updates = Some(2)
    /\ [k \in DOMAIN consumed |-> consumed[k].ts_local_us] = <<0, 0, 2>>
    /\ \A a \in 1..3 :
          /\ Len(EmittedPositions[a]) = 2
          /\ EmittedPositions[a][1] = StreamPos(consumed[2])
          /\ EmittedPositions[a][2] = StreamPos(consumed[3])


(***************************************************************************)
(* Cadence values that are not positive.                                   *)
(***************************************************************************)
\* the cadence arguments with every value that is not positive unset
PositiveOnly(cfg) ==
    [cfg EXCEPT !.every_us = filter_positive(@), !.every_updates = filter_positive(@)]

\* replay_between_delta over a whole stream
RECURSIVE BetweenRun(_, _, _)
BetweenRun(cfg, s, updates) ==
    IF s.pc # "loop" THEN s
    ELSE IF updates = << >> THEN BetweenFinal(cfg, s)
    ELSE BetweenRun(cfg, BetweenStep(cfg, s, Head(updates)), Tail(updates))

\* C36: in replay and replay_between_delta, as in
\* build_state_checkpoints_delta, a cadence value that is not positive never
\* triggers an emission: the emissions of a call are those of the same call
\* with such values unset.
C36_NonPositiveUnset ==
    (config.api = "trio" /\ st.pc = "done") =>
        LET positive == PositiveOnly(config)
        IN /\ ReplayEmissions(st.replay)
                 = ReplayEmissions(replay(consumed, TrioReplayConfig(positive)))
           /\ st.between.pc = "done" =>
                 BetweenEmissions(st.between)
                    = BetweenEmissions(BetweenRun(TrioBetweenConfig(positive),
                                                  BetweenInit(TrioBetweenConfig(positive), NoTable),
                                                  consumed))
           /\ st.build.pc # "error" =>
                 BuildPositions(st.build)
                    = BuildPositions(BuildFrom(TrioBuildConfig(positive),
                                               BuildInit(TrioBuildConfig(positive)),
                                               NoTable, consumed).st)


(***************************************************************************)
(* The snapshot-group handling of replay and SnapshotReset::apply.         *)
(***************************************************************************)
\* SnapshotReset::apply over a stream: the key and the book afterwards
RECURSIVE SnapshotResetFold(_, _, _)
SnapshotResetFold(snapshot_key, book, updates) ==
    IF updates = << >> THEN [snapshot_key |-> snapshot_key, book |-> book]
    ELSE LET r == SnapshotResetApply(snapshot_key, book, Head(updates))
         IN SnapshotResetFold(r.snapshot_key, r.book, Tail(updates))

\* the row u would reset a book whose open group is snapshot_key
ResetsAt(snapshot_key, u) ==
    u.is_snapshot /\ snapshot_key # Some(snapshot_group_key(u))

\* the key replay compares the row u with: cleared at a timestamp boundary
InlineKeyAt(s, u) == IF ts_boundary(s.last_pos, u) THEN None ELSE s.snapshot_key

\* C37: after every update of every stream the book of replay, whose
\* snapshot-group handling is written inline and clears snapshot_key at
\* every timestamp boundary, is the book SnapshotReset::apply produces on the
\* same updates, and the next row resets the one exactly when it resets the
\* other.
C37_SameResets ==
    (config.api = "replay" /\ st.pc \in {"loop", "done"}) =>
        LET r == SnapshotResetFold(None, OrderBookDefault, consumed)
        IN /\ st.book = r.book
           /\ \A u \in NextRow(BookUpdates) :
                 ResetsAt(InlineKeyAt(st, u), u) = ResetsAt(r.snapshot_key, u)

\* a snapshot group of a bid and an ask of one file at ts 1, then a snapshot
\* row of the same file at ts 2: replay cleared its key at the boundary, and
\* both books hold the row of ts 2 only
C37_Witness ==
    /\ config.api = "replay"
    /\ st.pc = "loop"
    /\ Len(consumed) = 3
    /\ \A k \in 1..3 : consumed[k].is_snapshot /\ consumed[k].file_id = 10
    /\ consumed[1].ts_local_us = 1 /\ consumed[2].ts_local_us = 1
    /\ consumed[1].side = 0 /\ consumed[2].side = 1
    /\ consumed[3].ts_local_us = 2 /\ consumed[3].side = 0
    /\ st.book = SnapshotResetFold(None, OrderBookDefault, consumed).book
    /\ levels(st.book) = <<(<<(<<100, 5>>)>>), << >>>>


(***************************************************************************)
(* build_state_checkpoints_delta: a run that emits no row.                 *)
(***************************************************************************)
\* the build has ended without having collected a row
EndedWithoutRows ==
    /\ config.api = "build_state_checkpoints_delta"
    /\ st.pc \notin {"loop", "error", "panic"}
    /\ st.rows = << >>

\* C38: a run of build_state_checkpoints_delta that emits no row returns 0
\* and issues neither a delete nor an append; the checkpoint table, with the
\* rows an earlier run left in the range, is as the call found it.
C38_NoRowsNoWrite ==
    EndedWithoutRows =>
        /\ st.pc = "done"
        /\ st.result = Some(0)
        /\ NothingWritten

\* one row of day 0 with every_updates = 2: the cadence is not reached, and
\* the table keeps the row of day 0 an earlier run wrote
C38_Witness ==
    /\ EndedWithoutRows
    /\ config.checkpoint_every_updates = Some(2)
    /\ Len(consumed) = 1
    /\ consumed[1].ts_local_us = 1
    /\ st.applied = 1
    /\ st.result = Some(0)
    /\ table = Some(<<OldRow(<<"x">>, 0), OldRow(<<"x">>, 2), OldRow(<<"y">>, 1)>>)


(***************************************************************************)
(* build_state_checkpoints_delta: last_pos and last_meta.                  *)
(***************************************************************************)
\* the build is in or past its row loop and has not failed
BuildRunning ==
    /\ config.api = "build_state_checkpoints_delta"
    /\ st.pc \in {"loop", "done", "delete", "append"}

\* C39: in build_state_checkpoints_delta last_pos is set exactly when
\* last_meta is set, and then both are taken from the update applied last;
\* so last_meta is set whenever a row is emitted, at a boundary or in the
\* final flush, and expect("last_meta missing") cannot fail.
C39_MetaSetWithPos ==
    BuildRunning =>
        /\ IsSome(st.last_pos) = IsSome(st.last_meta)
        /\ IsSome(st.last_pos) = (Delivered # << >>)
        /\ IsSome(st.last_pos) =>
              LET u == Delivered[Len(Delivered)]
              IN /\ Unwrap(st.last_pos) = StreamPos(u)
                 /\ Unwrap(st.last_meta) = CheckpointMeta(u)
        /\ st.rows # << >> => IsSome(st.last_meta)

\* two rows of ts 1 with exchange_id 1 and 2 and every_updates = 2: the
\* final flush emitted a row while last_pos and last_meta named the second
C39_Witness ==
    /\ BuildRunning
    /\ st.pc # "loop"
    /\ Len(consumed) = 2
    /\ consumed[1].ts_local_us = 1 /\ consumed[2].ts_local_us = 1
    /\ consumed[1].exchange_id = 1 /\ consumed[2].exchange_id = 2
    /\ config.checkpoint_every_updates = Some(2)
    /\ Len(st.rows) = 1
    /\ st.last_pos = Some(StreamPos(consumed[2]))
    /\ st.last_meta = Some(CheckpointMeta(consumed[2]))
    /\ st.rows[1].exchange_id = 2


(***************************************************************************)
(* escape_sql_string and the delete predicate.                             *)
(***************************************************************************)
\* the text with every single quote doubled and nothing else changed
RECURSIVE QuotesDoubled(_)
QuotesDoubled(value) ==
    IF value = << >> THEN << >>
    ELSE IF Head(value) = "'" THEN <<"'", "'">> \o QuotesDoubled(Tail(value))
    ELSE <<Head(value)>> \o QuotesDoubled(Tail(value))

\* C40: escape_sql_string, in utils.rs as in lib.rs, doubles every single
\* quote of its input and changes nothing else, so for every partition
\* build_state_checkpoints_delta is about to delete, the literal between
\* single quotes in the delete predicate denotes the partition's exchange.
C40_EscapeDoublesQuotes ==
    (config.api = "build_state_checkpoints_delta" /\ st.pc = "delete") =>
        \A partition \in st.partitions :
            LET exchange == partition[1]
                predicate == delete_predicate(exchange, partition[2], partition[3])
            IN /\ lib_escape_sql_string(exchange) = QuotesDoubled(exchange)
               /\ escape_sql_string(exchange) = QuotesDoubled(exchange)
               /\ sql_literal_value(predicate.exchange_literal) = Ok(exchange)

====
